---- MODULE Spec2Model ----
\* Plugin lifecycle and registry subsystem of plugins-service:
\* PluginRegistryImpl and LifecycleManager (core/lifecycle-manager.ts) driving
\* plugin hooks and emitting lifecycle events on the shared TypedEventEmitter
\* (shared/events/index.ts).
\*
\* Every async function is a frame on the call stack of a task.  One step of
\* the model is one synchronous run of JavaScript: from the moment a promise
\* settles (or a call is made) up to the next suspending await.
EXTENDS Integers, Sequences, FiniteSets, TLC

\* ---------------------------------------------------------------- bounds
\* Listeners subscribed to each lifecycle event (the subscriber "sub" and others)
MaxListeners == 2

\* Plugin names (metadata.name) the callers use
Names == {"a", "b"}
Tasks == {1, 2}

\* The entries of the plugins root, in the order readdirSync returns them
Entries == <<"d1", "d2">>
Ids == 1..(Cardinality(Names) + Cardinality(Tasks))

\* ---------------------------------------------------------------- types
Hooks == {"onLoad", "onEnable", "onDisable", "onUnload"}

\* Plugin objects handed to loadPlugin: which optional hooks they define.
PluginKinds == {{}, {"onEnable", "onUnload"}, Hooks}

UNLOADED == "unloaded"
LOADED == "loaded"
ENABLED_STATE == "enabled"
DISABLED == "disabled"
ERROR == "error"
PluginState == {UNLOADED, LOADED, ENABLED_STATE, DISABLED, ERROR}

LifecycleEvents == {"plugin:loaded", "plugin:enabled", "plugin:disabled", "plugin:unloaded"}

\* path.join(dir, name)
Join(dir, name) == dir \o "/" \o name

\* The plugins root (options.pluginsDir) and the descriptor file name
PluginsDir == "plugins"
PLUGIN_CONFIG_FILE == "plugin.json"

\* A slot of the heap that holds no PluginInstance.
NoInst == [name |-> "", version |-> "", hooks |-> {}, state |-> "free", path |-> ""]

\* name and version are instance.metadata's; hooks: the optional members
\* (hooks, routes) that instance.plugin defines
PluginInstance(n, v, hs, st, path) ==
    [name |-> n, version |-> v, hooks |-> hs, state |-> st, path |-> path]

\* The messages of the errors that reach the lifecycle manager from outside
\* (a hook that rejects, a listener that throws), and of its own lookup error.
HookFailure == "hook rejected"
ListenerFailure == "listener threw"
NotFound == "Plugin not found"

\* Results of an async function: fulfilled, or rejected with a typed error
\* carrying the plugin name, (PluginLifecycleError) the hook it names, and
\* the message the constructor builds.
NoResult == [res |-> "none", name |-> "", hook |-> "none", msg |-> "", plugin |-> {}, version |-> ""]
Fulfilled == [res |-> "ok", name |-> "", hook |-> "none", msg |-> "", plugin |-> {}, version |-> ""]
PluginLoadError(n, m) ==
    [res |-> "PluginLoadError", name |-> n, hook |-> "none", msg |-> m \o ": " \o n,
     plugin |-> {}, version |-> ""]
PluginLifecycleError(n, h, m) ==
    [res |-> "PluginLifecycleError", name |-> n, hook |-> h,
     msg |-> m \o " (" \o h \o "): " \o n, plugin |-> {}, version |-> ""]

VARIABLES
    inst,       \* heap of PluginInstance objects, by object identity
    registry,   \* PluginRegistryImpl.plugins: instance ids in Map insertion order
    listeners,  \* pluginEvents: listeners of each lifecycle event, in subscription order
    tasks,      \* in-flight top-level calls: call stack and what the call did so far
    last,       \* the top-level call that completed most recently
    loadOrder,  \* history: registered names by their most recent successful load
    fs,         \* the entries of the plugins root: what each one contains
    autoEnable, \* PluginLoader.autoEnable
    socketRateLimits, \* websocket middleware: Map socket id -> {count, resetAt}
    clock,      \* Date.now()
    window      \* history: per socket, the start of its window and the calls accepted in it

vars == <<inst, registry, listeners, tasks, last, loadOrder, fs, autoEnable,
          socketRateLimits, clock, window>>

\* ---------------------------------------------------------------- trace
\* What a call did, in order: hooks invoked and settled, instance state
\* assignments, registry changes, events emitted and delivered to "sub".
Ev(k, n, x) == [k |-> k, n |-> n, x |-> x]

\* The world a synchronous run reads and writes.
World(i, r, tr) == [inst |-> i, reg |-> r, tr |-> tr]

Log(w, e) == [w EXCEPT !.tr = Append(@, e)]

\* instance.state = st
SetState(w, id, st) ==
    Log([w EXCEPT !.inst[id].state = st], Ev("state", w.inst[id].name, st))

\* ---------------------------------------------------------------- registry
RegIndex(i, r, n) == {p \in 1..Len(r) : i[r[p]].name = n}

\* get(name): the instance id, 0 for undefined
Get(i, r, n) == IF RegIndex(i, r, n) = {} THEN 0 ELSE r[CHOOSE p \in RegIndex(i, r, n) : TRUE]

Has(i, r, n) == RegIndex(i, r, n) # {}

\* getAll(): Array.from(plugins.values())
GetAll(r) == r

RECURSIVE FilterEnabled(_, _)
FilterEnabled(i, r) ==
    IF r = <<>> THEN <<>>
    ELSE IF i[Head(r)].state = ENABLED_STATE THEN <<Head(r)>> \o FilterEnabled(i, Tail(r))
    ELSE FilterEnabled(i, Tail(r))

\* getEnabled()
GetEnabled(i, r) == FilterEnabled(i, GetAll(r))

\* (mutant) a table that appends every registration
MapSetAppend(i, r, id) == Append(r, id)

\* Map.set: a new key is appended, an existing key keeps its position
MapSet(i, r, id) ==
    IF Has(i, r, i[id].name)
    THEN [p \in 1..Len(r) |-> IF i[r[p]].name = i[id].name THEN id ELSE r[p]]
    ELSE Append(r, id)

\* (mutant) Map.clear in the place of Map.delete
MapClear(i, r, n) == <<>>

RECURSIVE MapDelete(_, _, _)
MapDelete(i, r, n) ==
    IF r = <<>> THEN <<>>
    ELSE IF i[Head(r)].name = n THEN Tail(r)
    ELSE <<Head(r)>> \o MapDelete(i, Tail(r), n)

\* register(instance)
Register(w, id) ==
    Log([w EXCEPT !.reg = MapSet(w.inst, w.reg, id)], Ev("reg", w.inst[id].name, ""))

\* unregister(name)
Unregister(w, n) ==
    Log([w EXCEPT !.reg = MapDelete(w.inst, w.reg, n)],
        Ev(IF Has(w.inst, w.reg, n) THEN "unreg" ELSE "unreg-miss", n, ""))

RECURSIVE Reverse(_)
Reverse(s) == IF s = <<>> THEN <<>> ELSE Reverse(Tail(s)) \o <<Head(s)>>

RECURSIVE NamesOf(_, _)
NamesOf(i, r) == IF r = <<>> THEN <<>> ELSE <<i[Head(r)].name>> \o NamesOf(i, Tail(r))

\* ---------------------------------------------------------------- event bus
\* emitEvent(event, payload) is EventEmitter.emit: the listeners of the event
\* run synchronously in subscription order; an exception thrown by a listener
\* leaves emit at once, so later listeners are not run.  thrower is the
\* position of the listener that throws in this emission, 0 when none does.
\* (mutant) emit that runs the listeners most recent first
InvokedNewestFirst(ls, event, thrower) ==
    SubSeq(Reverse(ls[event]), 1, IF thrower = 0 THEN Len(ls[event]) ELSE thrower)

Invoked(ls, event, thrower) ==
    SubSeq(ls[event], 1, IF thrower = 0 THEN Len(ls[event]) ELSE thrower)

Delivered(ls, event, thrower) ==
    \E p \in 1..Len(Invoked(ls, event, thrower)) : Invoked(ls, event, thrower)[p] = "sub"

EmitEvent(w, ls, event, n, thrower) ==
    IF Delivered(ls, event, thrower)
    THEN Log(Log(w, Ev("emit", n, event)), Ev("recv", n, event))
    ELSE Log(w, Ev("emit", n, event))

Threw(ls, event, thrower) == thrower \in 1..Len(ls[event])

\* ---------------------------------------------------------------- frames
\* A suspended async function: where it waits (pc is the pending hook, or
\* "await" for a pending call of another async function, whose result
\* arrives in ret), and its locals.
Frame(fn, pc, n, id, todo, ret) ==
    [fn |-> fn, pc |-> pc, name |-> n, id |-> id, todo |-> todo, ret |-> ret]

\* How a synchronous run ends: the function it ran has settled with result,
\* or it is suspended and frames go on the stack (callee last).
Settled(w, result) == [w |-> w, done |-> TRUE, result |-> result, frames |-> <<>>]
Suspended(w, frames) == [w |-> w, done |-> FALSE, result |-> NoResult, frames |-> frames]

\* The caller of a function awaits it: it is suspended even when the callee
\* settled without suspending (the continuation of an await is a microtask).
Awaiting(caller, o) ==
    IF o.done
    THEN Suspended(o.w, <<[caller EXCEPT !.ret = o.result]>>)
    ELSE Suspended(o.w, <<caller>> \o o.frames)

\* await plugin.hook(context): the hook is invoked and the frame waits for it
InvokeHook(w, fn, hook, n, id) ==
    Suspended(Log(w, Ev("call", n, hook)), <<Frame(fn, hook, n, id, <<>>, NoResult)>>)

\* ---------------------------------------------------------------- loadPlugin
\* (mutant) loadPlugin that registers the instance without emitting plugin:loaded
LoadPluginTailNoEvent(w, ls, n, id, thrower) ==
    Settled(Log(Register(SetState(w, id, LOADED), id), Ev("loaded", n, "")), Fulfilled)

\* loadPlugin after onLoad fulfilled or was absent (lines 178-188), with the
\* catch block (190-191) for an exception of emitEvent; "loaded" marks the
\* return of the instance (line 188)
LoadPluginTail(w, ls, n, id, thrower) ==
    LET w1 == EmitEvent(Register(SetState(w, id, LOADED), id), ls, "plugin:loaded", n, thrower)
    IN  IF Threw(ls, "plugin:loaded", thrower)
        THEN Settled(SetState(w1, id, ERROR), PluginLoadError(n, ListenerFailure))
        ELSE Settled(Log(w1, Ev("loaded", n, "")), Fulfilled)

\* (mutant) loadPlugin that registers the instance before it invokes onLoad
LoadPluginEnterRegistersFirst(w, ls, n, v, hs, path, id, thrower) ==
    LET w1 == Register(Log([w EXCEPT !.inst[id] = PluginInstance(n, v, hs, UNLOADED, path)],
                           Ev("state", n, UNLOADED)), id)
    IN  IF "onLoad" \in hs
        THEN InvokeHook(w1, "loadPlugin", "onLoad", n, id)
        ELSE LoadPluginTail(w1, ls, n, id, thrower)

\* loadPlugin up to its first await (lines 162-176)
LoadPluginEnter(w, ls, n, v, hs, path, id, thrower) ==
    LET w1 == Log([w EXCEPT !.inst[id] = PluginInstance(n, v, hs, UNLOADED, path)],
                  Ev("state", n, UNLOADED))
    IN  IF "onLoad" \in hs
        THEN InvokeHook(w1, "loadPlugin", "onLoad", n, id)
        ELSE LoadPluginTail(w1, ls, n, id, thrower)

\* loadPlugin when onLoad settles
LoadPluginResume(w, ls, f, ok, thrower) ==
    IF ok
    THEN LoadPluginTail(Log(w, Ev("ok", f.name, "onLoad")), ls, f.name, f.id, thrower)
    ELSE Settled(SetState(Log(w, Ev("fail", f.name, "onLoad")), f.id, ERROR),
                 PluginLoadError(f.name, HookFailure))

\* ---------------------------------------------------------------- enablePlugin
\* lines 213-218 and the catch block 220-221
\* (mutant) enablePlugin that emits plugin:enabled before it assigns the state
EnablePluginTailEmitFirst(w, ls, n, id, thrower) ==
    LET w1 == SetState(EmitEvent(w, ls, "plugin:enabled", n, thrower), id, ENABLED_STATE)
    IN  IF Threw(ls, "plugin:enabled", thrower)
        THEN Settled(SetState(w1, id, ERROR), PluginLifecycleError(n, "onEnable", ListenerFailure))
        ELSE Settled(w1, Fulfilled)

EnablePluginTail(w, ls, n, id, thrower) ==
    LET w1 == EmitEvent(SetState(w, id, ENABLED_STATE), ls, "plugin:enabled", n, thrower)
    IN  IF Threw(ls, "plugin:enabled", thrower)
        THEN Settled(SetState(w1, id, ERROR), PluginLifecycleError(n, "onEnable", ListenerFailure))
        ELSE Settled(w1, Fulfilled)

\* (mutant) enablePlugin without the early return for an enabled plugin
EnablePluginEnterNoGuard(w, ls, n, thrower) ==
    LET id == Get(w.inst, w.reg, n)
    IN  IF id = 0 THEN Settled(w, PluginLoadError(n, NotFound))
        ELSE IF "onEnable" \in w.inst[id].hooks
        THEN InvokeHook(w, "enablePlugin", "onEnable", n, id)
        ELSE EnablePluginTail(w, ls, n, id, thrower)

\* (mutant) enablePlugin behind a lock: it returns at once while an onEnable
\* of the name is pending
EnablePluginEnterLocked(w, ls, n, thrower) ==
    LET id == Get(w.inst, w.reg, n)
    IN  IF id = 0 THEN Settled(w, PluginLoadError(n, NotFound))
        ELSE IF w.inst[id].state = ENABLED_STATE THEN Settled(w, Fulfilled)
        ELSE IF \E u \in DOMAIN tasks :
                    /\ tasks[u].stack # <<>>
                    /\ tasks[u].stack[Len(tasks[u].stack)].pc = "onEnable"
                    /\ tasks[u].stack[Len(tasks[u].stack)].name = n
        THEN Settled(w, Fulfilled)
        ELSE IF "onEnable" \in w.inst[id].hooks
        THEN InvokeHook(w, "enablePlugin", "onEnable", n, id)
        ELSE EnablePluginTail(w, ls, n, id, thrower)

\* lines 199-211
EnablePluginEnter(w, ls, n, thrower) ==
    LET id == Get(w.inst, w.reg, n)
    IN  IF id = 0 THEN Settled(w, PluginLoadError(n, NotFound))
        ELSE IF w.inst[id].state = ENABLED_STATE THEN Settled(w, Fulfilled)
        ELSE IF "onEnable" \in w.inst[id].hooks
        THEN InvokeHook(w, "enablePlugin", "onEnable", n, id)
        ELSE EnablePluginTail(w, ls, n, id, thrower)

EnablePluginResume(w, ls, f, ok, thrower) ==
    IF ok
    THEN EnablePluginTail(Log(w, Ev("ok", f.name, "onEnable")), ls, f.name, f.id, thrower)
    ELSE Settled(SetState(Log(w, Ev("fail", f.name, "onEnable")), f.id, ERROR),
                 PluginLifecycleError(f.name, "onEnable", HookFailure))

\* ---------------------------------------------------------------- disablePlugin
\* lines 243-248 and the catch block 250-251
DisablePluginTail(w, ls, n, id, thrower) ==
    LET w1 == EmitEvent(SetState(w, id, DISABLED), ls, "plugin:disabled", n, thrower)
    IN  IF Threw(ls, "plugin:disabled", thrower)
        THEN Settled(SetState(w1, id, ERROR), PluginLifecycleError(n, "onDisable", ListenerFailure))
        ELSE Settled(w1, Fulfilled)

\* (mutant) disablePlugin without the early return for a disabled or loaded plugin
DisablePluginEnterNoGuard(w, ls, n, thrower) ==
    LET id == Get(w.inst, w.reg, n)
    IN  IF id = 0 THEN Settled(w, PluginLoadError(n, NotFound))
        ELSE IF "onDisable" \in w.inst[id].hooks
        THEN InvokeHook(w, "disablePlugin", "onDisable", n, id)
        ELSE DisablePluginTail(w, ls, n, id, thrower)

\* lines 229-241
DisablePluginEnter(w, ls, n, thrower) ==
    LET id == Get(w.inst, w.reg, n)
    IN  IF id = 0 THEN Settled(w, PluginLoadError(n, NotFound))
        ELSE IF w.inst[id].state \in {DISABLED, LOADED} THEN Settled(w, Fulfilled)
        ELSE IF "onDisable" \in w.inst[id].hooks
        THEN InvokeHook(w, "disablePlugin", "onDisable", n, id)
        ELSE DisablePluginTail(w, ls, n, id, thrower)

DisablePluginResume(w, ls, f, ok, thrower) ==
    IF ok
    THEN DisablePluginTail(Log(w, Ev("ok", f.name, "onDisable")), ls, f.name, f.id, thrower)
    ELSE Settled(SetState(Log(w, Ev("fail", f.name, "onDisable")), f.id, ERROR),
                 PluginLifecycleError(f.name, "onDisable", HookFailure))

\* ---------------------------------------------------------------- unloadPlugin
\* lines 275-281 and the catch block 283-284
UnloadPluginTail(w, ls, n, id, thrower) ==
    LET w1 == EmitEvent(Unregister(SetState(w, id, UNLOADED), n), ls, "plugin:unloaded", n, thrower)
    IN  IF Threw(ls, "plugin:unloaded", thrower)
        THEN Settled(SetState(w1, id, ERROR), PluginLifecycleError(n, "onUnload", ListenerFailure))
        ELSE Settled(w1, Fulfilled)

\* lines 270-273
UnloadPluginHook(w, ls, n, id, thrower) ==
    IF "onUnload" \in w.inst[id].hooks
    THEN InvokeHook(w, "unloadPlugin", "onUnload", n, id)
    ELSE UnloadPluginTail(w, ls, n, id, thrower)

\* (mutant) unloadPlugin that unregisters a name that is not registered
UnloadPluginEnterAbsentUnregisters(w, ls, n, thrower) ==
    LET id == Get(w.inst, w.reg, n)
    IN  IF id = 0 THEN Settled(Unregister(w, n), Fulfilled)
        ELSE IF w.inst[id].state = ENABLED_STATE
        THEN Awaiting(Frame("unloadPlugin", "await", n, id, <<>>, NoResult),
                      DisablePluginEnter(w, ls, n, thrower))
        ELSE UnloadPluginHook(w, ls, n, id, thrower)

\* (mutant) unloadPlugin that leaves a plugin in state error alone
UnloadPluginEnterKeepsError(w, ls, n, thrower) ==
    LET id == Get(w.inst, w.reg, n)
    IN  IF id = 0 THEN Settled(w, Fulfilled)
        ELSE IF w.inst[id].state = ERROR THEN Settled(w, Fulfilled)
        ELSE IF w.inst[id].state = ENABLED_STATE
        THEN Awaiting(Frame("unloadPlugin", "await", n, id, <<>>, NoResult),
                      DisablePluginEnter(w, ls, n, thrower))
        ELSE UnloadPluginHook(w, ls, n, id, thrower)

\* (mutant) unloadPlugin that does not disable an enabled plugin first
UnloadPluginEnterNoDisable(w, ls, n, thrower) ==
    LET id == Get(w.inst, w.reg, n)
    IN  IF id = 0 THEN Settled(w, Fulfilled)
        ELSE UnloadPluginHook(w, ls, n, id, thrower)

\* lines 259-268
UnloadPluginEnter(w, ls, n, thrower) ==
    LET id == Get(w.inst, w.reg, n)
    IN  IF id = 0 THEN Settled(w, Fulfilled)
        ELSE IF w.inst[id].state = ENABLED_STATE
        THEN Awaiting(Frame("unloadPlugin", "await", n, id, <<>>, NoResult),
                      DisablePluginEnter(w, ls, n, thrower))
        ELSE UnloadPluginHook(w, ls, n, id, thrower)

\* (mutant) unloadPlugin that goes on to onUnload after a failed disable
UnloadPluginAfterDisableAnyway(w, ls, f, thrower) ==
    UnloadPluginHook(w, ls, f.name, f.id, thrower)

\* unloadPlugin when its await of disablePlugin settles: a rejection lands in
\* the catch block of unloadPlugin (lines 282-285)
UnloadPluginAfterDisable(w, ls, f, thrower) ==
    IF f.ret.res = "ok"
    THEN UnloadPluginHook(w, ls, f.name, f.id, thrower)
    ELSE Settled(SetState(w, f.id, ERROR), PluginLifecycleError(f.name, "onUnload", f.ret.msg))

\* (mutant) unloadPlugin that unregisters the instance although onUnload rejected
UnloadPluginResumeUnregisters(w, ls, f, ok, thrower) ==
    IF ok
    THEN UnloadPluginTail(Log(w, Ev("ok", f.name, "onUnload")), ls, f.name, f.id, thrower)
    ELSE Settled(SetState(Unregister(Log(w, Ev("fail", f.name, "onUnload")), f.name), f.id, ERROR),
                 PluginLifecycleError(f.name, "onUnload", HookFailure))

UnloadPluginResume(w, ls, f, ok, thrower) ==
    IF ok
    THEN UnloadPluginTail(Log(w, Ev("ok", f.name, "onUnload")), ls, f.name, f.id, thrower)
    ELSE Settled(SetState(Log(w, Ev("fail", f.name, "onUnload")), f.id, ERROR),
                 PluginLifecycleError(f.name, "onUnload", HookFailure))

\* ---------------------------------------------------------------- unloadAllPlugins
\* the for loop of unloadAllPlugins from its next element (lines 295-304)
UnloadAllLoop(w, ls, todo, thrower) ==
    IF todo = <<>> THEN Settled(w, Fulfilled)
    ELSE Awaiting(Frame("unloadAllPlugins", "await", "", 0, Tail(todo), NoResult),
                  UnloadPluginEnter(Log(w, Ev("visit", Head(todo), "")), ls, Head(todo), thrower))

\* (mutant) unloadAllPlugins that sweeps in registration order
UnloadAllEnterForward(w, ls, thrower) ==
    UnloadAllLoop(w, ls, NamesOf(w.inst, GetAll(w.reg)), thrower)

\* lines 292-295: the snapshot of getAll(), reversed
UnloadAllEnter(w, ls, thrower) ==
    UnloadAllLoop(w, ls, Reverse(NamesOf(w.inst, GetAll(w.reg))), thrower)

\* (mutant) unloadAllPlugins without the try/catch around unloadPlugin
UnloadAllResumeRethrow(w, ls, f, thrower) ==
    IF f.ret.res = "ok" THEN UnloadAllLoop(w, ls, f.todo, thrower) ELSE Settled(w, f.ret)

\* the await of unloadPlugin settles: a rejection is caught and logged
UnloadAllResume(w, ls, f, thrower) ==
    UnloadAllLoop(IF f.ret.res = "ok" THEN w ELSE Log(w, Ev("caught", f.ret.name, f.ret.hook)),
                  ls, f.todo, thrower)

\* ---------------------------------------------------------------- status
\* {state, metadata} as getPluginStatus returns it and {name, state, version}
\* as getAllPluginStatuses does: the state with metadata.name and metadata.version
PluginStatus(n, st, v) == [name |-> n, state |-> st, version |-> v]

\* the null that getPluginStatus returns
NullStatus == PluginStatus("", "null", "")

\* getPluginStatus(name) (lines 310-314)
GetPluginStatus(i, r, n) ==
    LET id == Get(i, r, n)
    IN  IF id = 0 THEN NullStatus
        ELSE PluginStatus(i[id].name, i[id].state, i[id].version)

\* (mutant) getAllPluginStatuses that reports the enabled plugins only
GetAllPluginStatusesOfEnabled(i, r) ==
    [p \in 1..Len(GetEnabled(i, r)) |->
        PluginStatus(i[GetEnabled(i, r)[p]].name, i[GetEnabled(i, r)[p]].state,
                     i[GetEnabled(i, r)[p]].version)]

\* getAllPluginStatuses() (lines 319-325)
GetAllPluginStatuses(i, r) ==
    [p \in 1..Len(GetAll(r)) |->
        PluginStatus(i[GetAll(r)[p]].name, i[GetAll(r)[p]].state, i[GetAll(r)[p]].version)]

\* ---------------------------------------------------------------- plugin loader
\* What a directory entry of the plugins root holds: the files present, the
\* parsed plugin.json (json is "malformed" when JSON.parse throws), and what
\* importing the index module gives (it rejects, it has no default object, or
\* its default export is a plugin with a name and optional members).
Entry(isDir, files, json, meta, module, plugin) ==
    [isDir |-> isDir, files |-> files, json |-> json, meta |-> meta,
     module |-> module, plugin |-> plugin]

RawMetadata(object, n, v, e) == [object |-> object, name |-> n, version |-> v, enabled |-> e]

PluginMetadata(n, v, e) == [name |-> n, version |-> v, enabled |-> e]

Plugin(n, hs) == [name |-> n, hooks |-> hs]

\* results of loadPluginFromDirectory: null, or {plugin, metadata}
Null == [res |-> "null", name |-> "", hook |-> "none", msg |-> "", plugin |-> {}, version |-> ""]
Loaded(n, v, hs) ==
    [res |-> "ok", name |-> n, hook |-> "none", msg |-> "", plugin |-> hs, version |-> v]

\* errors that are not typed plugin errors: of JSON.parse, of import(), of a
\* routes callback
SyntaxError == [res |-> "SyntaxError", name |-> "", hook |-> "none",
                msg |-> "Unexpected token in JSON", plugin |-> {}, version |-> ""]
ImportError == [res |-> "Error", name |-> "", hook |-> "none",
                msg |-> "module evaluation failed", plugin |-> {}, version |-> ""]
RoutesError == [res |-> "Error", name |-> "", hook |-> "routes",
                msg |-> "routes threw", plugin |-> {}, version |-> ""]

\* path.basename of a directory of the plugins root
Basename(dir) == CHOOSE e \in DOMAIN fs : Join(PluginsDir, e) = dir

\* validateMetadata(metadata, pluginDir): the metadata, or the error thrown
ValidateMetadata(meta, pluginDir) ==
    IF ~meta.object
    THEN [err |-> PluginLoadError(pluginDir, "Invalid plugin.json: not an object"),
          metadata |-> PluginMetadata("", "", FALSE)]
    ELSE IF meta.name = ""
    THEN [err |-> PluginLoadError(pluginDir, "Invalid plugin.json: missing or invalid name"),
          metadata |-> PluginMetadata("", "", FALSE)]
    ELSE IF meta.version = ""
    THEN [err |-> PluginLoadError(pluginDir, "Invalid plugin.json: missing or invalid version"),
          metadata |-> PluginMetadata("", "", FALSE)]
    ELSE [err |-> NoResult,
          metadata |-> PluginMetadata(meta.name, meta.version, meta.enabled # "false")]

\* loadPluginFromDirectory(pluginDir) up to its await of import() (lines 210-238)
LoadPluginFromDirectoryEnter(w, pluginDir) ==
    LET d == fs[Basename(pluginDir)]
        v == ValidateMetadata(d.meta, pluginDir)
    IN  IF PLUGIN_CONFIG_FILE \notin d.files THEN Settled(w, Null)
        ELSE IF d.json = "malformed" THEN Settled(w, SyntaxError)
        ELSE IF v.err # NoResult THEN Settled(w, v.err)
        ELSE IF ~v.metadata.enabled THEN Settled(w, Null)
        ELSE IF d.files \cap {"index.ts", "index.js"} = {}
        THEN Settled(w, PluginLoadError(v.metadata.name, "No index.ts or index.js found"))
        ELSE Suspended(Log(w, Ev("import", v.metadata.name,
                                  Join(pluginDir, IF "index.ts" \in d.files THEN "index.ts"
                                                  ELSE "index.js"))),
                       <<Frame("loadPluginFromDirectory", "import", v.metadata.name, 0,
                               <<pluginDir>>, NoResult)>>)

\* (mutant) loadPluginFromDirectory that accepts a module whose name differs
LoadPluginFromDirectoryResumeAnyName(w, f) ==
    LET d == fs[Basename(f.todo[1])]
    IN  IF d.module = "throws" THEN Settled(w, ImportError)
        ELSE IF d.module = "nodefault"
        THEN Settled(w, PluginLoadError(f.name, "Plugin does not export a default object"))
        ELSE Settled(w, Loaded(f.name, ValidateMetadata(d.meta, f.todo[1]).metadata.version,
                               d.plugin.hooks))

\* loadPluginFromDirectory when import() settles (lines 241-257)
LoadPluginFromDirectoryResume(w, f) ==
    LET d == fs[Basename(f.todo[1])]
    IN  IF d.module = "throws" THEN Settled(w, ImportError)
        ELSE IF d.module = "nodefault"
        THEN Settled(w, PluginLoadError(f.name, "Plugin does not export a default object"))
        ELSE IF d.plugin.name # f.name
        THEN Settled(w, PluginLoadError(f.name, "Plugin name mismatch: " \o d.plugin.name
                                                    \o " vs " \o f.name))
        ELSE Settled(w, Loaded(f.name, ValidateMetadata(d.meta, f.todo[1]).metadata.version,
                               d.plugin.hooks))

\* a free slot of the heap for a new PluginInstance
FreeSlot(i) == CHOOSE id \in Ids : i[id] = NoInst /\ \A other \in Ids : i[other] = NoInst => id <= other

RECURSIVE PluginDirs(_)
\* the directories among the entries, joined to the plugins root (lines 285-288)
PluginDirs(entries) ==
    IF entries = <<>> THEN <<>>
    ELSE IF fs[Head(entries)].isDir
    THEN <<Join(PluginsDir, Head(entries))>> \o PluginDirs(Tail(entries))
    ELSE PluginDirs(Tail(entries))

\* the for loop of loadAllPlugins from its next directory (lines 291-293);
\* "dir" marks the start of an iteration
LoadAllLoop(w, todo) ==
    IF todo = <<>> THEN Settled(w, Fulfilled)
    ELSE Awaiting(Frame("loadAllPlugins", "await discover", "", 0, todo, NoResult),
                  LoadPluginFromDirectoryEnter(Log(w, Ev("dir", Basename(Head(todo)), "")),
                                               Head(todo)))

\* loadAllPlugins up to its first await (lines 276-291)
LoadAllEnter(w) == LoadAllLoop(w, PluginDirs(Entries))

\* results.push({success: true, pluginName: metadata.name}) and the next iteration
LoadAllSuccess(w, f) ==
    LoadAllLoop(Log(w, Ev("result", f.name, "success")), Tail(f.todo))

\* (mutant) loadAllPlugins without the try/catch around one directory
LoadAllCatchRethrow(w, f) == Settled(w, f.ret)

\* the catch block (lines 308-316) and the next iteration
LoadAllCatch(w, f) ==
    LoadAllLoop(Log(w, Ev("result", Basename(Head(f.todo)), f.ret.msg)), Tail(f.todo))

\* (mutant) loadAllPlugins that also loads what loadPluginFromDirectory skipped
LoadAllResumeLoadsSkipped(w, ls, f, thrower) ==
    IF f.pc = "await discover" /\ f.ret.res = "null"
    THEN Awaiting([f EXCEPT !.pc = "await load", !.name = Basename(Head(f.todo)), !.ret = NoResult],
                  LoadPluginEnter(w, ls, Basename(Head(f.todo)), "", {}, Head(f.todo),
                                  FreeSlot(w.inst), thrower))
    ELSE IF f.ret.res \notin {"ok", "null"} THEN LoadAllCatch(w, f)
    ELSE IF f.pc = "await discover"
    THEN Awaiting([f EXCEPT !.pc = "await load", !.name = f.ret.name, !.ret = NoResult],
                  LoadPluginEnter(w, ls, f.ret.name, f.ret.version, f.ret.plugin, Head(f.todo),
                                  FreeSlot(w.inst), thrower))
    ELSE IF f.pc = "await load" /\ autoEnable
    THEN Awaiting([f EXCEPT !.pc = "await enable", !.ret = NoResult],
                  EnablePluginEnter(w, ls, f.name, thrower))
    ELSE LoadAllSuccess(w, f)

\* (mutant) loadAllPlugins that calls enablePlugin without awaiting it
LoadAllResumeNoAwait(w, ls, f, thrower) ==
    IF f.ret.res \notin {"ok", "null"} THEN LoadAllCatch(w, f)
    ELSE IF f.pc = "await discover"
    THEN IF f.ret.res = "null" THEN LoadAllLoop(w, Tail(f.todo))
         ELSE Awaiting([f EXCEPT !.pc = "await load", !.name = f.ret.name, !.ret = NoResult],
                       LoadPluginEnter(w, ls, f.ret.name, f.ret.version, f.ret.plugin, Head(f.todo),
                                       FreeSlot(w.inst), thrower))
    ELSE IF f.pc = "await load" /\ autoEnable
    THEN LoadAllSuccess(EnablePluginEnter(w, ls, f.name, thrower).w, f)
    ELSE LoadAllSuccess(w, f)

\* loadAllPlugins when the call it awaits settles (lines 293-306): a
\* rejection goes to the catch block
LoadAllResume(w, ls, f, thrower) ==
    IF f.ret.res \notin {"ok", "null"} THEN LoadAllCatch(w, f)
    ELSE IF f.pc = "await discover"
    THEN IF f.ret.res = "null" THEN LoadAllLoop(w, Tail(f.todo))
         ELSE Awaiting([f EXCEPT !.pc = "await load", !.name = f.ret.name, !.ret = NoResult],
                       LoadPluginEnter(w, ls, f.ret.name, f.ret.version, f.ret.plugin, Head(f.todo),
                                       FreeSlot(w.inst), thrower))
    ELSE IF f.pc = "await load" /\ autoEnable
    THEN Awaiting([f EXCEPT !.pc = "await enable", !.ret = NoResult],
                  EnablePluginEnter(w, ls, f.name, thrower))
    ELSE LoadAllSuccess(w, f)

\* reloadPlugin(name) up to its first await (lines 347-353)
ReloadPluginEnter(w, ls, n, thrower) ==
    LET id == Get(w.inst, w.reg, n)
    IN  IF id = 0 THEN Settled(w, PluginLoadError(n, NotFound))
        ELSE Awaiting(Frame("reloadPlugin", "await unload", n, id, <<>>, NoResult),
                      UnloadPluginEnter(w, ls, n, thrower))

\* (mutant) reloadPlugin that does not enable the plugin it loaded again
ReloadPluginResumeNoEnable(w, ls, f, thrower) ==
    IF f.ret.res \notin {"ok", "null"} THEN Settled(w, f.ret)
    ELSE IF f.pc = "await unload"
    THEN Awaiting([f EXCEPT !.pc = "await discover", !.ret = NoResult],
                  LoadPluginFromDirectoryEnter(w, w.inst[f.id].path))
    ELSE IF f.pc = "await discover"
    THEN IF f.ret.res = "null" THEN Settled(w, PluginLoadError(f.name, "Failed to reload plugin"))
         ELSE Awaiting([f EXCEPT !.pc = "await load", !.ret = NoResult],
                       LoadPluginEnter(w, ls, f.ret.name, f.ret.version, f.ret.plugin,
                                       w.inst[f.id].path,
                                       FreeSlot(w.inst), thrower))
    ELSE Settled(w, Fulfilled)

\* (mutant) reloadPlugin that puts the previous instance back into the registry
\* when the directory no longer yields a plugin
ReloadPluginResumeRestore(w, ls, f, thrower) ==
    IF f.ret.res \notin {"ok", "null"} THEN Settled(w, f.ret)
    ELSE IF f.pc = "await unload"
    THEN Awaiting([f EXCEPT !.pc = "await discover", !.ret = NoResult],
                  LoadPluginFromDirectoryEnter(w, w.inst[f.id].path))
    ELSE IF f.pc = "await discover"
    THEN IF f.ret.res = "null"
         THEN Settled(Register(w, f.id), PluginLoadError(f.name, "Failed to reload plugin"))
         ELSE Awaiting([f EXCEPT !.pc = "await load", !.ret = NoResult],
                       LoadPluginEnter(w, ls, f.ret.name, f.ret.version, f.ret.plugin,
                                       w.inst[f.id].path,
                                       FreeSlot(w.inst), thrower))
    ELSE IF f.pc = "await load"
    THEN Awaiting([f EXCEPT !.pc = "await enable", !.ret = NoResult],
                  EnablePluginEnter(w, ls, f.name, thrower))
    ELSE Settled(w, Fulfilled)

\* reloadPlugin when the call it awaits settles (lines 353-363): a
\* rejection leaves reloadPlugin at once
ReloadPluginResume(w, ls, f, thrower) ==
    IF f.ret.res \notin {"ok", "null"} THEN Settled(w, f.ret)
    ELSE IF f.pc = "await unload"
    THEN Awaiting([f EXCEPT !.pc = "await discover", !.ret = NoResult],
                  LoadPluginFromDirectoryEnter(w, w.inst[f.id].path))
    ELSE IF f.pc = "await discover"
    THEN IF f.ret.res = "null" THEN Settled(w, PluginLoadError(f.name, "Failed to reload plugin"))
         ELSE Awaiting([f EXCEPT !.pc = "await load", !.ret = NoResult],
                       LoadPluginEnter(w, ls, f.ret.name, f.ret.version, f.ret.plugin,
                                       w.inst[f.id].path,
                                       FreeSlot(w.inst), thrower))
    ELSE IF f.pc = "await load"
    THEN Awaiting([f EXCEPT !.pc = "await enable", !.ret = NoResult],
                  EnablePluginEnter(w, ls, f.name, thrower))
    ELSE Settled(w, Fulfilled)

\* the route-mount path (line 335)
API_PREFIX == "/api"
API_VERSION == "v1"
MountPath(n) == API_PREFIX \o "/" \o API_VERSION \o "/" \o n

RECURSIVE RegisterRoutesLoop(_, _, _)
\* the for loop of registerPluginRoutes over the instances left (lines
\* 329-340); the thrower-th routes callback invoked throws (0: none does)
RegisterRoutesLoop(w, ids, thrower) ==
    IF ids = <<>> THEN Settled(w, Fulfilled)
    ELSE IF "routes" \notin w.inst[Head(ids)].hooks THEN RegisterRoutesLoop(w, Tail(ids), thrower)
    ELSE LET n == w.inst[Head(ids)].name
             w1 == Log(Log(w, Ev("router", n, "")), Ev("call", n, "routes"))
         IN  IF thrower = 1 THEN Settled(Log(w1, Ev("fail", n, "routes")), RoutesError)
             ELSE RegisterRoutesLoop(
                     Log(Log(w1, Ev("ok", n, "routes")), Ev("mount", n, MountPath(n))),
                     Tail(ids), IF thrower = 0 THEN 0 ELSE thrower - 1)

\* (mutant) registerPluginRoutes over every registry entry
RegisterRoutesEnterAll(w, thrower) == RegisterRoutesLoop(w, GetAll(w.reg), thrower)

\* registerPluginRoutes(app) (lines 326-341)
RegisterRoutesEnter(w, thrower) == RegisterRoutesLoop(w, GetEnabled(w.inst, w.reg), thrower)

\* ---------------------------------------------------------------- process
\* process.exit(code): the function that called it never settles, the
\* process is gone
Exit(code) == [res |-> "exit", name |-> "", hook |-> "none", msg |-> code, plugin |-> {},
               version |-> ""]

\* main from "Load plugins" to its await of loadAllPlugins (lines 59-64)
MainLoadPlugins(w) ==
    Awaiting(Frame("main", "await loadAll", "", 0, <<>>, NoResult), LoadAllEnter(w))

\* main() up to its await of connectDatabase() (lines 23-33)
MainEnter(w) == Suspended(w, <<Frame("main", "connectDatabase", "", 0, <<>>, NoResult)>>)

\* (mutant) main for which a failing connectRedis is fatal as well
MainConnectedCacheFatal(w, f, ok, kafkaEnabled) ==
    LET w1 == Log(w, Ev("connect", f.pc, IF ok THEN "ok" ELSE "fail"))
    IN  IF f.pc \in {"connectDatabase", "connectRedis"} /\ ~ok
        THEN Settled(Log(w1, Ev("exit", "", "1")), Exit("1"))
        ELSE IF f.pc = "connectDatabase" THEN Suspended(w1, <<[f EXCEPT !.pc = "connectRedis"]>>)
        ELSE IF f.pc = "connectRedis" /\ kafkaEnabled
        THEN Suspended(w1, <<[f EXCEPT !.pc = "initKafka"]>>)
        ELSE MainLoadPlugins(w1)

\* main when connectDatabase(), connectRedis() or initKafka() settles (lines
\* 32-57): a database failure ends the process, the other failures are logged
MainConnected(w, f, ok, kafkaEnabled) ==
    LET w1 == Log(w, Ev("connect", f.pc, IF ok THEN "ok" ELSE "fail"))
    IN  IF f.pc = "connectDatabase" /\ ~ok
        THEN Settled(Log(w1, Ev("exit", "", "1")), Exit("1"))
        ELSE IF f.pc = "connectDatabase" THEN Suspended(w1, <<[f EXCEPT !.pc = "connectRedis"]>>)
        ELSE IF f.pc = "connectRedis" /\ kafkaEnabled
        THEN Suspended(w1, <<[f EXCEPT !.pc = "initKafka"]>>)
        ELSE MainLoadPlugins(w1)

\* main when loadAllPlugins settles (lines 64-152): the routes are
\* registered (an exception is caught and logged, lines 71-73), the server
\* listens and the shutdown handlers are installed
MainAfterLoad(w, f) ==
    LET o == IF f.ret.res = "ok" THEN RegisterRoutesEnter(w, 0) ELSE Settled(w, f.ret)
    IN  Settled(Log(Log(o.w, Ev("listen", "", "")), Ev("handlers", "", "")), Fulfilled)

\* (mutant) shutdown that emits system:shutdown after it has called unloadAllPlugins
ShutdownEnterEmitLast(w, ls, signal, thrower) ==
    LET o == UnloadAllEnter(Log(w, Ev("close", "", "server")), ls, thrower)
    IN  Awaiting(Frame("shutdown", "await unloadAll", signal, 0, <<>>, NoResult),
                 [o EXCEPT !.w = Log(o.w, Ev("emit", signal, "system:shutdown"))])

\* shutdown(signal) up to its await of unloadAllPlugins (lines 100-113)
ShutdownEnter(w, ls, signal, thrower) ==
    Awaiting(Frame("shutdown", "await unloadAll", signal, 0, <<>>, NoResult),
             UnloadAllEnter(Log(Log(w, Ev("emit", signal, "system:shutdown")),
                                Ev("close", "", "server")),
                            ls, thrower))

\* shutdown when unloadAllPlugins settles (lines 114-128, catch 132-134);
\* "disconnect" marks the call of the disconnects (lines 118-128)
ShutdownResume(w, f) ==
    IF f.ret.res = "ok"
    THEN Suspended(Log(w, Ev("disconnect", "", "start")),
                   <<[f EXCEPT !.pc = "disconnect", !.ret = NoResult]>>)
    ELSE Settled(Log(w, Ev("exit", "", "1")), Exit("1"))

\* shutdown when the Promise.all of the disconnects settles (lines 130-131);
\* every disconnect carries its own catch, so it fulfils
ShutdownDisconnected(w, f) == Settled(Log(w, Ev("exit", "", "0")), Exit("0"))

\* ---------------------------------------------------------------- tasks
IdleTask == [op |-> "idle", name |-> "", id |-> 0, pre |-> "", order |-> <<>>, loads |-> <<>>,
             stack |-> <<>>, tr |-> <<>>]

NoCall == [op |-> "none", name |-> "", hooks |-> {}, pre |-> "", order |-> <<>>, post |-> "",
           registered |-> FALSE, result |-> NoResult, tr |-> <<>>, loads |-> <<>>,
           value |-> <<>>]

Idle(t) == tasks[t].op = "idle"

AllIdle == \A t \in Tasks : Idle(t)

Top(t) == tasks[t].stack[Len(tasks[t].stack)]

Below(t) == SubSeq(tasks[t].stack, 1, Len(tasks[t].stack) - 1)

InRegistry(r, id) == \E p \in 1..Len(r) : r[p] = id

\* Instances that neither the registry nor a suspended frame refers to are
\* unreachable: their slots are free again.
Referenced(r, ts) ==
    {r[p] : p \in 1..Len(r)}
        \cup {ts[t].id : t \in Tasks}
        \cup UNION {{ts[t].stack[p].id : p \in 1..Len(ts[t].stack)} : t \in Tasks}

\* Object identities are not observable: the heap is kept in a normal form in
\* which the registered instances come first, in registry order, and the
\* other reachable instances follow.
Rank(r, ts, id) ==
    IF id = 0 THEN 0
    ELSE IF InRegistry(r, id) THEN CHOOSE p \in 1..Len(r) : r[p] = id
    ELSE Len(r) + Cardinality({j \in Referenced(r, ts) \ {0} : ~InRegistry(r, j) /\ j <= id})

CollectInst(i, r, ts) ==
    [k \in Ids |->
        IF \E id \in Referenced(r, ts) \ {0} : Rank(r, ts, id) = k
        THEN i[CHOOSE id \in Referenced(r, ts) \ {0} : Rank(r, ts, id) = k]
        ELSE NoInst]

CollectRegistry(r) == [p \in 1..Len(r) |-> p]

CollectTasks(r, ts) ==
    [t \in Tasks |->
        [ts[t] EXCEPT !.id = Rank(r, ts, @),
                      !.stack = [p \in 1..Len(@) |-> [@[p] EXCEPT !.id = Rank(r, ts, @)]]]]

FreeId == CHOOSE id \in Ids : inst[id] = NoInst /\ \A other \in Ids : inst[other] = NoInst => id <= other

\* The state of the instance registered under n, "absent" when there is none
StateOf(i, r, n) == IF Has(i, r, n) THEN i[Get(i, r, n)].state ELSE "absent"

RECURSIVE Without(_, _)
\* the sequence s without the entries equal to n
Without(s, n) ==
    IF s = <<>> THEN <<>>
    ELSE IF Head(s) = n THEN Without(Tail(s), n)
    ELSE <<Head(s)>> \o Without(Tail(s), n)

RECURSIVE LoadOrderAfter(_, _)
\* The registered names in the order of their most recent successful
\* loadPlugin, after the calls of tr: a load that returns moves the name to
\* the end, a removal from the registry drops it.
LoadOrderAfter(lo, tr) ==
    IF tr = <<>> THEN lo
    ELSE LoadOrderAfter(
            CASE Head(tr).k = "loaded" -> Append(Without(lo, Head(tr).n), Head(tr).n)
              [] Head(tr).k = "unreg" -> Without(lo, Head(tr).n)
              [] OTHER -> lo,
            Tail(tr))

\* The record of a completed top-level call: the state of the instance
\* registered under its name when the call was made (pre), the names in the
\* registry then (order, kept for unloadAllPlugins), the state of the instance
\* the call worked on and whether it is registered when the call settles;
\* loads is the load history when the call was made.
Completed(task, o) ==
    [op |-> task.op, name |-> task.name,
     hooks |-> IF task.id = 0 THEN {} ELSE o.w.inst[task.id].hooks,
     pre |-> task.pre, order |-> task.order,
     post |-> IF task.id = 0 THEN "absent" ELSE o.w.inst[task.id].state,
     registered |-> task.id # 0 /\ InRegistry(o.w.reg, task.id),
     result |-> o.result, tr |-> o.w.tr, loads |-> task.loads, value |-> <<>>]

\* The effect of one synchronous run of task t that ended as o, on top of
\* the frames base that were below the function that ran.
Apply(t, task, base, o) ==
    LET stack == IF ~o.done THEN base \o o.frames
                 ELSE IF base = <<>> THEN <<>>
                 ELSE [base EXCEPT ![Len(base)].ret = o.result]
        ts == [tasks EXCEPT ![t] = IF stack = <<>> THEN IdleTask
                                   ELSE [task EXCEPT !.stack = stack, !.tr = o.w.tr]]
    IN  /\ tasks' = CollectTasks(o.w.reg, ts)
        /\ registry' = CollectRegistry(o.w.reg)
        /\ inst' = CollectInst(o.w.inst, o.w.reg, ts)
        /\ IF stack = <<>>
           THEN last' = Completed(task, o)
           ELSE UNCHANGED last
        /\ UNCHANGED <<listeners, fs, autoEnable, socketRateLimits, clock, window>>

Here(t) == World(inst, registry, tasks[t].tr)

NewTask(op, n, id) ==
    [op |-> op, name |-> n, id |-> id,
     pre |-> IF n = "" THEN "" ELSE StateOf(inst, registry, n),
     order |-> IF n = "" THEN NamesOf(inst, GetAll(registry)) ELSE <<>>,
     loads |-> IF n = "" THEN loadOrder ELSE <<>>,
     stack |-> <<>>, tr |-> <<>>]

\* ---------------------------------------------------------------- actions
\* A caller invokes lifecycleManager.loadPlugin(plugin, metadata, path) with
\* the plugin's directory under the plugins root as path.
LoadPlugin(t, n, v, hs, thrower) ==
    /\ Idle(t)
    /\ \E id \in Ids : inst[id] = NoInst
    /\ Apply(t, NewTask("loadPlugin", n, FreeId), <<>>,
             LoadPluginEnter(Here(t), listeners, n, v, hs, Join(PluginsDir, n), FreeId, thrower))

\* A caller invokes lifecycleManager.enablePlugin(name).
EnablePlugin(t, n, thrower) ==
    /\ Idle(t)
    /\ Apply(t, NewTask("enablePlugin", n, Get(inst, registry, n)), <<>>,
             EnablePluginEnter(Here(t), listeners, n, thrower))

\* A caller invokes lifecycleManager.disablePlugin(name).
DisablePlugin(t, n, thrower) ==
    /\ Idle(t)
    /\ Apply(t, NewTask("disablePlugin", n, Get(inst, registry, n)), <<>>,
             DisablePluginEnter(Here(t), listeners, n, thrower))

\* A caller invokes lifecycleManager.unloadPlugin(name).
UnloadPlugin(t, n, thrower) ==
    /\ Idle(t)
    /\ Apply(t, NewTask("unloadPlugin", n, Get(inst, registry, n)), <<>>,
             UnloadPluginEnter(Here(t), listeners, n, thrower))

\* A caller invokes lifecycleManager.unloadAllPlugins().
UnloadAllPlugins(t, thrower) ==
    /\ Idle(t)
    /\ Apply(t, NewTask("unloadAllPlugins", "", 0), <<>>,
             UnloadAllEnter(Here(t), listeners, thrower))

\* A caller invokes pluginLoader.loadAllPlugins().
LoadAllPlugins(t) ==
    /\ Idle(t)
    /\ Apply(t, NewTask("loadAllPlugins", "", 0), <<>>, LoadAllEnter(Here(t)))

\* A caller invokes pluginLoader.reloadPlugin(name).
ReloadPlugin(t, n, thrower) ==
    /\ Idle(t)
    /\ Apply(t, NewTask("reloadPlugin", n, Get(inst, registry, n)), <<>>,
             ReloadPluginEnter(Here(t), listeners, n, thrower))

\* A caller invokes pluginLoader.registerPluginRoutes(app); the thrower-th
\* routes callback throws.
RegisterPluginRoutes(t, thrower) ==
    /\ Idle(t)
    /\ Apply(t, NewTask("registerPluginRoutes", "", 0), <<>>,
             RegisterRoutesEnter(Here(t), thrower))

\* The record of a synchronous call that returns value.
Returned(op, n, value) == [NoCall EXCEPT !.op = op, !.name = n, !.value = value]

\* what a call that only reads leaves alone
ReadOnly == UNCHANGED <<inst, registry, listeners, tasks, loadOrder, fs, autoEnable, socketRateLimits, clock, window>>

\* A caller invokes lifecycleManager.getPluginStatus(name); the call is
\* synchronous, so it can come between two steps of a pending lifecycle call.
CallGetPluginStatus(n) ==
    /\ last' = Returned("getPluginStatus", n, <<GetPluginStatus(inst, registry, n)>>)
    /\ ReadOnly

\* A caller invokes lifecycleManager.getAllPluginStatuses().
CallGetAllPluginStatuses ==
    /\ last' = Returned("getAllPluginStatuses", "", GetAllPluginStatuses(inst, registry))
    /\ ReadOnly

\* The process starts: main() is called (line 156).
Main(t) ==
    /\ Idle(t)
    /\ Apply(t, NewTask("main", "", 0), <<>>, MainEnter(Here(t)))

\* the positions at which main awaits a connection
Connects == {"connectDatabase", "connectRedis", "initKafka"}

\* The connection main waits for is made (ok) or fails; kafkaEnabled is
\* config.kafka.enabled.
ConnectSettles(t, ok, kafkaEnabled) ==
    /\ ~Idle(t)
    /\ Top(t).pc \in Connects
    /\ Apply(t, tasks[t], Below(t), MainConnected(Here(t), Top(t), ok, kafkaEnabled))

\* A shutdown handler runs: shutdown(signal) is called (lines 139-152).
Shutdown(t, signal) ==
    /\ Idle(t)
    /\ Apply(t, NewTask("shutdown", "", 0), <<>>, ShutdownEnter(Here(t), listeners, signal, 0))

\* The disconnects a shutdown waits for have settled.
DisconnectSettles(t) ==
    /\ ~Idle(t)
    /\ Top(t).pc = "disconnect"
    /\ Apply(t, tasks[t], Below(t), ShutdownDisconnected(Here(t), Top(t)))

\* The import() the top frame of task t waits for settles.
ImportSettles(t) ==
    /\ ~Idle(t)
    /\ Top(t).pc = "import"
    /\ Apply(t, tasks[t], Below(t), LoadPluginFromDirectoryResume(Here(t), Top(t)))

\* The hook the top frame of task t waits for fulfils (ok) or rejects.
HookResume(w, ls, f, ok, thrower) ==
    CASE f.fn = "loadPlugin" -> LoadPluginResume(w, ls, f, ok, thrower)
      [] f.fn = "enablePlugin" -> EnablePluginResume(w, ls, f, ok, thrower)
      [] f.fn = "disablePlugin" -> DisablePluginResume(w, ls, f, ok, thrower)
      [] f.fn = "unloadPlugin" -> UnloadPluginResume(w, ls, f, ok, thrower)

HookSettles(t, ok, thrower) ==
    /\ ~Idle(t)
    /\ Top(t).pc \in Hooks
    /\ Apply(t, tasks[t], Below(t), HookResume(Here(t), listeners, Top(t), ok, thrower))

\* The async function the top frame of task t awaits has settled: the frame
\* continues.
AwaitResume(w, ls, f, thrower) ==
    CASE f.fn = "unloadPlugin" -> UnloadPluginAfterDisable(w, ls, f, thrower)
      [] f.fn = "unloadAllPlugins" -> UnloadAllResume(w, ls, f, thrower)
      [] f.fn = "loadAllPlugins" -> LoadAllResume(w, ls, f, thrower)
      [] f.fn = "reloadPlugin" -> ReloadPluginResume(w, ls, f, thrower)
      [] f.fn = "main" -> MainAfterLoad(w, f)
      [] f.fn = "shutdown" -> ShutdownResume(w, f)

\* the positions at which a frame awaits another async function
Awaits == {"await", "await discover", "await load", "await enable", "await unload",
           "await loadAll", "await unloadAll"}

AwaitSettles(t, thrower) ==
    /\ ~Idle(t)
    /\ Top(t).pc \in Awaits
    /\ Top(t).ret # NoResult
    /\ Apply(t, tasks[t], Below(t), AwaitResume(Here(t), listeners, Top(t), thrower))

\* ---------------------------------------------------------------- specifications
\* "sub" subscribed as the at-th of MaxListeners listeners
ListenerOrder(at) == [p \in 1..MaxListeners |-> IF p = at THEN "sub" ELSE "other"]

InitCommon ==
    /\ inst = [id \in Ids |-> NoInst]
    /\ registry = <<>>
    /\ tasks = [t \in Tasks |-> IdleTask]
    /\ last = NoCall
    /\ loadOrder = <<>>
    /\ socketRateLimits = <<>>
    /\ clock = 0
    /\ window = <<>>

\* The lifecycle manager driven directly: no plugin loader, nothing on disk.
NoLoader ==
    /\ fs = <<>>
    /\ autoEnable = TRUE

\* the trace entries that the step of task t adds
Added(t) ==
    LET now == IF tasks'[t].op = "idle" THEN last'.tr ELSE tasks'[t].tr
    IN  SubSeq(now, Len(tasks[t].tr) + 1, Len(now))

\* the load history is kept up to date with the step of task t
History(t) == loadOrder' = LoadOrderAfter(loadOrder, Added(t))

\* the load history is not kept
NoHistory == UNCHANGED loadOrder

\* Lifecycle calls made one after the other; no listener throws.
Init ==
    /\ InitCommon /\ NoLoader
    /\ listeners = [e \in LifecycleEvents |-> ListenerOrder(1)]

Serial(t) == AllIdle /\ t = 1

Next ==
    \E t \in Tasks :
        \/ \E n \in Names, hs \in PluginKinds : Serial(t) /\ LoadPlugin(t, n, "1.0.0", hs, 0) /\ NoHistory
        \/ \E n \in Names : Serial(t) /\ EnablePlugin(t, n, 0) /\ NoHistory
        \/ \E n \in Names : Serial(t) /\ DisablePlugin(t, n, 0) /\ NoHistory
        \/ \E n \in Names : Serial(t) /\ UnloadPlugin(t, n, 0) /\ NoHistory
        \/ Serial(t) /\ UnloadAllPlugins(t, 0) /\ NoHistory
        \/ \E ok \in BOOLEAN : HookSettles(t, ok, 0) /\ NoHistory
        \/ AwaitSettles(t, 0) /\ NoHistory

Spec == Init /\ [][Next]_vars

\* Lifecycle calls made one after the other; any listener may throw.
InitThrow ==
    /\ InitCommon /\ NoLoader
    /\ \E at \in 1..MaxListeners : listeners = [e \in LifecycleEvents |-> ListenerOrder(at)]

Throwers == 0..MaxListeners

ThrowNames == {"a"}

NextThrow ==
    \E t \in Tasks, thrower \in Throwers :
        \/ \E n \in ThrowNames, hs \in PluginKinds : Serial(t) /\ LoadPlugin(t, n, "1.0.0", hs, thrower) /\ NoHistory
        \/ \E n \in ThrowNames : Serial(t) /\ EnablePlugin(t, n, thrower) /\ NoHistory
        \/ \E n \in ThrowNames : Serial(t) /\ DisablePlugin(t, n, thrower) /\ NoHistory
        \/ \E n \in ThrowNames : Serial(t) /\ UnloadPlugin(t, n, thrower) /\ NoHistory
        \/ Serial(t) /\ UnloadAllPlugins(t, thrower) /\ NoHistory
        \/ \E ok \in BOOLEAN : HookSettles(t, ok, thrower) /\ NoHistory
        \/ AwaitSettles(t, thrower) /\ NoHistory

SpecThrow == InitThrow /\ [][NextThrow]_vars

\* Successful calls only: loadPlugin (also of a registered name), enablePlugin
\* of a registered name, unloadPlugin and unloadAllPlugins one after the
\* other, every hook fulfils, no listener throws; the load history is kept.
NextOrder ==
    \E t \in Tasks :
        \/ \E n \in Names, hs \in PluginKinds : Serial(t) /\ LoadPlugin(t, n, "1.0.0", hs, 0) /\ History(t)
        \/ \E n \in Names : Serial(t) /\ Has(inst, registry, n) /\ EnablePlugin(t, n, 0) /\ History(t)
        \/ \E n \in Names : Serial(t) /\ UnloadPlugin(t, n, 0) /\ History(t)
        \/ Serial(t) /\ UnloadAllPlugins(t, 0) /\ History(t)
        \/ HookSettles(t, TRUE, 0) /\ History(t)
        \/ AwaitSettles(t, 0) /\ History(t)

SpecOrder == Init /\ [][NextOrder]_vars

\* ---- the lifecycle manager with its status queries
\* Plugins with every hook, in two versions; lifecycle calls one after the
\* other, hooks may reject, status queries at any time.
StatusKinds == {Hooks}
StatusVersions == {"1.0.0", "2.0.0"}

NextStatus ==
    \E t \in Tasks :
        \/ \E n \in Names, v \in StatusVersions, hs \in StatusKinds :
                Serial(t) /\ LoadPlugin(t, n, v, hs, 0) /\ NoHistory
        \/ \E n \in Names : Serial(t) /\ EnablePlugin(t, n, 0) /\ NoHistory
        \/ \E n \in Names : Serial(t) /\ DisablePlugin(t, n, 0) /\ NoHistory
        \/ \E n \in Names : Serial(t) /\ UnloadPlugin(t, n, 0) /\ NoHistory
        \/ \E ok \in BOOLEAN : HookSettles(t, ok, 0) /\ NoHistory
        \/ AwaitSettles(t, 0) /\ NoHistory
        \/ \E n \in Names : CallGetPluginStatus(n)
        \/ CallGetAllPluginStatuses

SpecStatus == Init /\ [][NextStatus]_vars

\* ---- overlapping calls
\* Plugins are loaded one at a time; enablePlugin and disablePlugin are
\* called by two callers that do not wait for each other.
RaceKinds == {{"onEnable", "onDisable"}, {}}

NextRace ==
    \E t \in Tasks :
        \/ \E n \in Names, hs \in RaceKinds : Serial(t) /\ LoadPlugin(t, n, "1.0.0", hs, 0) /\ NoHistory
        \/ \E n \in Names : EnablePlugin(t, n, 0) /\ NoHistory
        \/ \E n \in Names : DisablePlugin(t, n, 0) /\ NoHistory
        \/ \E ok \in BOOLEAN : HookSettles(t, ok, 0) /\ NoHistory

SpecRace == Init /\ [][NextRace]_vars

\* ---- calls on different plugins interleaved
\* loadPlugin, enablePlugin, disablePlugin and unloadPlugin called while a
\* call of the other task waits for a hook; hooks may reject; no listener
\* throws.  Task 1 makes the calls on a and task 2 those on b.
IsolationKinds == {Hooks, {}}

NameOf(t) == IF t = 1 THEN "a" ELSE "b"

NextIsolation ==
    \E t \in Tasks :
        \/ \E hs \in IsolationKinds : LoadPlugin(t, NameOf(t), "1.0.0", hs, 0) /\ NoHistory
        \/ EnablePlugin(t, NameOf(t), 0) /\ NoHistory
        \/ DisablePlugin(t, NameOf(t), 0) /\ NoHistory
        \/ UnloadPlugin(t, NameOf(t), 0) /\ NoHistory
        \/ \E ok \in BOOLEAN : HookSettles(t, ok, 0) /\ NoHistory
        \/ AwaitSettles(t, 0) /\ NoHistory

SpecIsolation == Init /\ [][NextIsolation]_vars

\* ---- the registry on its own
\* pluginRegistry driven directly: callers register instances in any state
\* under the names of Names, unregister names and query.
RegisteredStates == {LOADED, ENABLED_STATE, ERROR}

\* the instances behind a sequence of ids
Instances(i, ids) == [p \in 1..Len(ids) |-> i[ids[p]]]

\* register(instance) with a new instance object (lines 123-125)
RegistryRegister(n, st) ==
    /\ \E id \in Ids : inst[id] = NoInst
    /\ LET made == [inst EXCEPT ![FreeId] = PluginInstance(n, "1.0.0", {}, st, Join(PluginsDir, n))]
           w == Register(World(made, registry, <<>>), FreeId)
       IN  /\ inst' = CollectInst(w.inst, w.reg, tasks)
           /\ registry' = CollectRegistry(w.reg)
           /\ last' = Returned("register", n, <<made[FreeId]>>)
    /\ UNCHANGED <<listeners, tasks, loadOrder, fs, autoEnable, socketRateLimits, clock, window>>

\* unregister(name) (lines 127-129): returns what Map.delete returns
RegistryUnregister(n) ==
    /\ LET w == Unregister(World(inst, registry, <<>>), n)
       IN  /\ inst' = CollectInst(w.inst, w.reg, tasks)
           /\ registry' = CollectRegistry(w.reg)
           /\ last' = Returned("unregister", n, <<w.tr[1].k = "unreg">>)
    /\ UNCHANGED <<listeners, tasks, loadOrder, fs, autoEnable, socketRateLimits, clock, window>>

\* get(name) (lines 107-109): the instance, or nothing for undefined
RegistryGet(n) ==
    /\ last' = Returned("get", n, Instances(inst, IF Get(inst, registry, n) = 0 THEN <<>>
                                                  ELSE <<Get(inst, registry, n)>>))
    /\ ReadOnly

\* has(name) (lines 119-121)
RegistryHas(n) ==
    /\ last' = Returned("has", n, <<Has(inst, registry, n)>>)
    /\ ReadOnly

\* getAll() (lines 111-113)
RegistryGetAll ==
    /\ last' = Returned("getAll", "", Instances(inst, GetAll(registry)))
    /\ ReadOnly

\* getEnabled() (lines 115-117)
RegistryGetEnabled ==
    /\ last' = Returned("getEnabled", "", Instances(inst, GetEnabled(inst, registry)))
    /\ ReadOnly

NextRegistry ==
    \/ \E n \in Names, st \in RegisteredStates : RegistryRegister(n, st)
    \/ \E n \in Names : RegistryUnregister(n)
    \/ \E n \in Names : RegistryGet(n)
    \/ \E n \in Names : RegistryHas(n)
    \/ RegistryGetAll
    \/ RegistryGetEnabled

SpecRegistry == Init /\ [][NextRegistry]_vars

\* ---- the event bus on its own
\* Event names and listener functions the subscribers use
BusEvents == {"plugin:loaded", "plugin:enabled"}
BusFns == {"f", "g"}

\* An entry of the listener table: the function, and whether it was added
\* with onceEvent
Subscription(fn, once) == [fn |-> fn, once |-> once]

RECURSIVE FnsOf(_)
FnsOf(subs) == IF subs = <<>> THEN <<>> ELSE <<Head(subs).fn>> \o FnsOf(Tail(subs))

\* (mutant) removeListener that takes the oldest subscription of fn
RemoveFirst(subs, fn) ==
    LET at == {p \in 1..Len(subs) : subs[p].fn = fn}
        first_at == CHOOSE p \in at : \A q \in at : p <= q
    IN  IF at = {} THEN subs
        ELSE SubSeq(subs, 1, first_at - 1) \o SubSeq(subs, first_at + 1, Len(subs))

\* removeListener: the most recently added subscription of fn goes
RemoveLast(subs, fn) ==
    LET at == {p \in 1..Len(subs) : subs[p].fn = fn}
        last_at == CHOOSE p \in at : \A q \in at : q <= p
    IN  IF at = {} THEN subs
        ELSE SubSeq(subs, 1, last_at - 1) \o SubSeq(subs, last_at + 1, Len(subs))

\* the error of a listener that throws, as it leaves emit
ListenerError == [res |-> "Error", name |-> "", hook |-> "none", msg |-> ListenerFailure,
                  plugin |-> {}, version |-> ""]

\* the record of a call of the bus
BusCall(op, e, order, tr, result) ==
    [NoCall EXCEPT !.op = op, !.name = e, !.order = order, !.tr = tr, !.result = result]

BusFrame == UNCHANGED <<inst, registry, tasks, loadOrder, fs, autoEnable, socketRateLimits, clock, window>>

\* onEvent(e, fn) (lines 48-53) and onceEvent(e, fn) (lines 58-63)
OnEvent(e, fn, once) ==
    /\ Len(listeners[e]) < MaxListeners
    /\ listeners' = [listeners EXCEPT ![e] = Append(@, Subscription(fn, once))]
    /\ last' = BusCall(IF once THEN "onceEvent" ELSE "onEvent", e, <<>>, <<>>, Fulfilled)
    /\ BusFrame

\* offEvent(e, fn) (lines 68-73)
OffEvent(e, fn) ==
    /\ listeners' = [listeners EXCEPT ![e] = RemoveLast(@, fn)]
    /\ last' = BusCall("offEvent", e, <<>>, <<>>, Fulfilled)
    /\ BusFrame

\* emitEvent(e, payload) (lines 41-43): the listeners of e run in order, a
\* once listener leaving the table as it is run; the thrower-th listener
\* throws, which ends emit; emit returns whether e had a listener
EmitEventCall(e, thrower) ==
    LET ran == Invoked(listeners, e, thrower)
        threw == Threw(listeners, e, thrower)
    IN  /\ thrower <= Len(listeners[e])
        /\ listeners' = [listeners EXCEPT ![e] =
                            SelectSeq(ran, LAMBDA sub : ~sub.once)
                                \o SubSeq(@, Len(ran) + 1, Len(@))]
        /\ last' = BusCall("emitEvent", e, FnsOf(listeners[e]),
                           [p \in 1..Len(ran) |-> Ev("invoke", ran[p].fn, e)]
                               \o (IF threw THEN <<>>
                                   ELSE <<Ev("return", e, IF Len(listeners[e]) > 0 THEN "true"
                                                          ELSE "false")>>),
                           IF threw THEN ListenerError ELSE Fulfilled)
        /\ BusFrame

InitBus ==
    /\ InitCommon /\ NoLoader
    /\ listeners = [e \in LifecycleEvents |-> <<>>]

NextBus ==
    \/ \E e \in BusEvents, fn \in BusFns, once \in BOOLEAN : OnEvent(e, fn, once)
    \/ \E e \in BusEvents, fn \in BusFns : OffEvent(e, fn)
    \/ \E e \in BusEvents, thrower \in Throwers : EmitEventCall(e, thrower)

SpecBus == InitBus /\ [][NextBus]_vars

\* ---- what the plugins root can hold
AllMembers == Hooks \cup {"routes"}

NoMeta == RawMetadata(FALSE, "", "", "absent")
NoPlugin == Plugin("", {})
BothFiles == {PLUGIN_CONFIG_FILE, "index.ts"}

\* a plain file among the entries
File == Entry(FALSE, {}, "value", NoMeta, "nodefault", NoPlugin)
\* a directory without plugin.json
NoDescriptor == Entry(TRUE, {"index.ts"}, "value", NoMeta, "nodefault", NoPlugin)
\* plugin.json that is not JSON, not an object, without name, without version
Malformed == Entry(TRUE, BothFiles, "malformed", NoMeta, "nodefault", NoPlugin)
NotObject == Entry(TRUE, BothFiles, "value", NoMeta, "nodefault", NoPlugin)
NoName == Entry(TRUE, BothFiles, "value", RawMetadata(TRUE, "", "1.0.0", "absent"), "nodefault", NoPlugin)
NoVersion == Entry(TRUE, BothFiles, "value", RawMetadata(TRUE, "a", "", "absent"), "nodefault", NoPlugin)
\* plugin.json with enabled: false
Disabled(n) ==
    Entry(TRUE, BothFiles, "value", RawMetadata(TRUE, n, "1.0.0", "false"), "ok", Plugin(n, AllMembers))
\* no index module, a module that fails to evaluate, one without a default object
NoIndex(n) ==
    Entry(TRUE, {PLUGIN_CONFIG_FILE}, "value", RawMetadata(TRUE, n, "1.0.0", "true"), "nodefault", NoPlugin)
ImportThrows(n) ==
    Entry(TRUE, BothFiles, "value", RawMetadata(TRUE, n, "1.0.0", "true"), "throws", NoPlugin)
NoDefault(n) ==
    Entry(TRUE, BothFiles, "value", RawMetadata(TRUE, n, "1.0.0", "true"), "nodefault", NoPlugin)
\* a module that exports the name m under a descriptor with the name n
Mismatch(n, m) ==
    Entry(TRUE, BothFiles, "value", RawMetadata(TRUE, n, "1.0.0", "true"), "ok", Plugin(m, AllMembers))
\* a well-formed plugin; e is the enabled field of its descriptor
WellFormed(n, hs, e) ==
    Entry(TRUE, IF e = "absent" THEN {PLUGIN_CONFIG_FILE, "index.js"} ELSE BothFiles, "value",
          RawMetadata(TRUE, n, "1.0.0", e), "ok", Plugin(n, hs))

\* what an entry can be when the descriptors in it carry a name of ns: a
\* plugin with every member and enabled: true, or one with no member and no
\* enabled field, or something that is skipped or fails
EntryKinds(ns) ==
    {File, NoDescriptor, Malformed, NotObject, NoName, NoVersion}
        \cup {Disabled(n) : n \in ns} \cup {NoIndex(n) : n \in ns}
        \cup {ImportThrows(n) : n \in ns} \cup {NoDefault(n) : n \in ns}
        \cup UNION {{Mismatch(n, m) : m \in Names \ {n}} : n \in ns}
        \cup {WellFormed(n, AllMembers, "true") : n \in ns}
        \cup {WellFormed(n, {}, "absent") : n \in ns}

\* The plugin loader over a plugins root; calls are made one after the other,
\* no listener throws.
InitLoader ==
    /\ InitCommon
    /\ listeners = [e \in LifecycleEvents |-> ListenerOrder(1)]
    /\ fs \in {[d1 |-> e1, d2 |-> e2] : e1 \in EntryKinds({"a"}), e2 \in EntryKinds(Names)}
    /\ autoEnable \in BOOLEAN

RouteThrowers == 0..1

NextLoader ==
    \E t \in Tasks :
        \/ Serial(t) /\ LoadAllPlugins(t) /\ NoHistory
        \/ \E n \in Names : Serial(t) /\ ReloadPlugin(t, n, 0) /\ NoHistory
        \/ \E n \in Names : Serial(t) /\ DisablePlugin(t, n, 0) /\ NoHistory
        \/ \E thrower \in RouteThrowers : Serial(t) /\ RegisterPluginRoutes(t, thrower) /\ NoHistory
        \/ ImportSettles(t) /\ NoHistory
        \/ \E ok \in BOOLEAN : HookSettles(t, ok, 0) /\ NoHistory
        \/ AwaitSettles(t, 0) /\ NoHistory

SpecLoader == InitLoader /\ [][NextLoader]_vars

\* ---- the server process
\* The process from its start: main() over a plugins root (the loader is
\* created with autoEnable true, line 61), then shutdown triggers, which can
\* come while an earlier shutdown is under way.  No listener throws.
\* The signals that arrive, in their order: the t-th is handled by task t.
Signals == <<"SIGINT", "SIGTERM">>

InitProcess ==
    /\ InitCommon
    /\ listeners = [e \in LifecycleEvents |-> ListenerOrder(1)]
    /\ fs \in {[d1 |-> e1, d2 |-> e2] :
                e1 \in {WellFormed("a", {"onDisable", "onUnload", "routes"}, "true"), Malformed},
                e2 \in {WellFormed("b", {"onLoad", "onDisable", "routes"}, "true"), File}}
    /\ autoEnable = TRUE

\* process.exit has not been called
Alive == \A p \in 1..Len(last.tr) : last.tr[p].k # "exit"

\* main has installed the shutdown handlers (lines 139-152)
HandlersInstalled ==
    last.op = "main" /\ \E p \in 1..Len(last.tr) : last.tr[p] = Ev("handlers", "", "")

NextProcess ==
    \E t \in Tasks :
        \/ Serial(t) /\ last = NoCall /\ Main(t) /\ NoHistory
        \/ \E ok \in BOOLEAN, kafkaEnabled \in BOOLEAN :
                Alive /\ ConnectSettles(t, ok, kafkaEnabled) /\ NoHistory
        \/ Alive /\ ImportSettles(t) /\ NoHistory
        \/ \E ok \in BOOLEAN : Alive /\ HookSettles(t, ok, 0) /\ NoHistory
        \/ Alive /\ AwaitSettles(t, 0) /\ NoHistory
        \/ /\ Alive /\ HandlersInstalled /\ \A u \in 1..(t - 1) : ~Idle(u)
           /\ Shutdown(t, Signals[t]) /\ NoHistory
        \/ Alive /\ DisconnectSettles(t) /\ NoHistory

SpecProcess == InitProcess /\ [][NextProcess]_vars

\* ---- reloading a package that is edited on disk
\* One package directory d1, whose contents change between calls: it is read
\* again by every loadPluginFromDirectory (readFileSync, existsSync, import).
\* Hooks may reject and any listener may throw.
ReloadKinds ==
    {WellFormed("a", AllMembers, "true"), WellFormed("a", {}, "absent"),
     Disabled("a"), Malformed, ImportThrows("a")}

\* the package in directory d is replaced by e while no call is under way
EditPackage(d, e) ==
    /\ AllIdle
    /\ fs[d] # e
    /\ fs' = [fs EXCEPT ![d] = e]
    /\ UNCHANGED <<inst, registry, tasks, last, listeners, loadOrder, autoEnable, socketRateLimits, clock, window>>

InitReload ==
    /\ InitCommon
    /\ listeners = [e \in LifecycleEvents |-> ListenerOrder(1)]
    /\ fs = [d1 |-> WellFormed("a", AllMembers, "true"), d2 |-> File]
    /\ autoEnable \in BOOLEAN

NextReload ==
    \/ \E e \in ReloadKinds : EditPackage("d1", e)
    \/ \E t \in Tasks, thrower \in Throwers :
        \/ Serial(t) /\ LoadAllPlugins(t) /\ NoHistory
        \/ \E n \in Names : Serial(t) /\ ReloadPlugin(t, n, thrower) /\ NoHistory
        \/ \E n \in Names : Serial(t) /\ DisablePlugin(t, n, thrower) /\ NoHistory
        \/ ImportSettles(t) /\ NoHistory
        \/ \E ok \in BOOLEAN : HookSettles(t, ok, thrower) /\ NoHistory
        \/ AwaitSettles(t, thrower) /\ NoHistory

SpecReload == InitReload /\ [][NextReload]_vars

\* ---------------------------------------------------------------- websocket rate limiting
\* RATE_LIMIT_CONFIG
maxEvents == 100
windowMs == 60000

\* The socket ids of the connections, and for how many windows the clock runs
Sockets == {"s1"}
MaxWindows == 3
MaxClock == MaxWindows * (windowMs + 1)

\* Map.get / Map.set / Map.delete on socketRateLimits
MapPut(m, k, v) == [x \in DOMAIN m \cup {k} |-> IF x = k THEN v ELSE m[x]]
MapRemove(m, ks) == [x \in DOMAIN m \ ks |-> m[x]]

\* (mutant) checkRateLimit that compares the count with > in the place of >=
CheckRateLimitOffByOne(limits, socketId, t) ==
    IF socketId \notin DOMAIN limits \/ limits[socketId].resetAt < t
    THEN [limits |-> MapPut(limits, socketId, [count |-> 1, resetAt |-> t + windowMs]),
          result |-> TRUE]
    ELSE IF limits[socketId].count > maxEvents
    THEN [limits |-> limits, result |-> FALSE]
    ELSE [limits |-> [limits EXCEPT ![socketId].count = @ + 1], result |-> TRUE]

\* checkRateLimit(socketId) when Date.now() is t: the table after the call
\* and the value returned
CheckRateLimit(limits, socketId, t) ==
    IF socketId \notin DOMAIN limits \/ limits[socketId].resetAt < t
    THEN [limits |-> MapPut(limits, socketId, [count |-> 1, resetAt |-> t + windowMs]),
          result |-> TRUE]
    ELSE IF limits[socketId].count >= maxEvents
    THEN [limits |-> limits, result |-> FALSE]
    ELSE [limits |-> [limits EXCEPT ![socketId].count = @ + 1], result |-> TRUE]

\* The window of a socket as an observer of the calls sees it: it starts
\* with the first accepted call made after the previous window has ended,
\* lasts windowMs, and counts the calls accepted in it.
Observed(w, socketId, t, accepted) ==
    IF ~accepted THEN w
    ELSE IF socketId \notin DOMAIN w \/ t > w[socketId].start + windowMs
    THEN MapPut(w, socketId, [start |-> t, accepted |-> 1])
    ELSE [w EXCEPT ![socketId].accepted = @ + 1]

RateFrame == UNCHANGED <<inst, registry, listeners, tasks, loadOrder, fs, autoEnable>>

\* An event of socket socketId reaches a handler wrapped by withRateLimit:
\* the handler runs when checkRateLimit returns true, else the socket gets
\* the error RATE_LIMITED.
WithRateLimit(socketId) ==
    LET c == CheckRateLimit(socketRateLimits, socketId, clock)
    IN  /\ socketRateLimits' = c.limits
        /\ window' = Observed(window, socketId, clock, c.result)
        /\ last' = [NoCall EXCEPT !.op = "checkRateLimit", !.name = socketId,
                                  !.value = <<c.result>>,
                                  !.tr = <<IF c.result THEN Ev("call", socketId, "handler")
                                           ELSE Ev("emit", socketId, "RATE_LIMITED")>>]
        /\ UNCHANGED clock
        /\ RateFrame

\* The instants the clock moves to: the middle of a window length from now,
\* and for every entry of the table its resetAt and the millisecond after it
\* (the code compares Date.now() with resetAt only).
Instants ==
    {clock + windowMs \div 2}
        \cup {socketRateLimits[k].resetAt : k \in DOMAIN socketRateLimits}
        \cup {socketRateLimits[k].resetAt + 1 : k \in DOMAIN socketRateLimits}

\* time passes
Advance(t) ==
    /\ t > clock /\ t <= MaxClock
    /\ clock' = t
    /\ UNCHANGED <<socketRateLimits, window, last>>
    /\ RateFrame

\* the setInterval callback: the entries whose resetAt is past are deleted
Cleanup ==
    /\ socketRateLimits' = MapRemove(socketRateLimits,
                                     {k \in DOMAIN socketRateLimits :
                                        socketRateLimits[k].resetAt < clock})
    /\ socketRateLimits' # socketRateLimits
    /\ UNCHANGED <<clock, window, last>>
    /\ RateFrame

InitRate ==
    /\ InitCommon /\ NoLoader
    /\ listeners = [e \in LifecycleEvents |-> <<>>]

NextRate ==
    \/ \E socketId \in Sockets : WithRateLimit(socketId)
    \/ \E t \in Instants : Advance(t)
    \/ Cleanup

SpecRate == InitRate /\ [][NextRate]_vars

\* ---------------------------------------------------------------- reading a trace
RECURSIVE Pick(_, _)
\* the entries of tr whose kind is in ks, in order
Pick(tr, ks) ==
    IF tr = <<>> THEN <<>>
    ELSE IF Head(tr).k \in ks THEN <<Head(tr)>> \o Pick(Tail(tr), ks)
    ELSE Pick(Tail(tr), ks)

Has1(tr, e) == \E p \in 1..Len(tr) : tr[p] = e

Count(tr, e) == Cardinality({p \in 1..Len(tr) : tr[p] = e})

\* e occurs in tr, and d occurs before its first occurrence
Before(tr, d, e) ==
    \A p \in 1..Len(tr) : tr[p] = e => \E q \in 1..(p - 1) : tr[q] = d

RECURSIVE NamesIn(_)
NamesIn(tr) == IF tr = <<>> THEN <<>> ELSE <<Head(tr).n>> \o NamesIn(Tail(tr))

RECURSIVE DetailsIn(_)
DetailsIn(tr) == IF tr = <<>> THEN <<>> ELSE <<Head(tr).x>> \o DetailsIn(Tail(tr))

\* the states assigned to the instance, the hooks invoked, the events
\* emitted, the events the subscriber observed, the plugins visited
StatesIn(c) == DetailsIn(Pick(c.tr, {"state"}))
CallsIn(c) == DetailsIn(Pick(c.tr, {"call"}))
EmitsIn(c) == DetailsIn(Pick(c.tr, {"emit"}))
ObservedIn(c) == Pick(c.tr, {"recv"})
VisitsIn(c) == NamesIn(Pick(c.tr, {"visit"}))

NoHookFailed(c) == Pick(c.tr, {"fail"}) = <<>>

\* r is a rejection with an error of type res that names plugin n and hook h
Rejected(r, res, n, h) == r.res = res /\ r.name = n /\ r.hook = h

\* a top-level call settles in this step
Completes == last' # last

\* the lifecycle function the step belongs to
StepOp ==
    IF ~Idle(1) THEN tasks[1].op
    ELSE IF tasks'[1].op # "idle" THEN tasks'[1].op
    ELSE IF Completes THEN last'.op ELSE "none"

\* ---------------------------------------------------------------- claims
\* C1: for a plugin whose onLoad and onEnable succeed or are absent, loadPlugin
\* followed by enablePlugin takes the instance through unloaded, loaded,
\* enabled, and the subscriber observes exactly one plugin:loaded and then
\* exactly one plugin:enabled event for the plugin's name.
C1_LoadThenEnable ==
    [][(/\ Completes
        /\ last.op = "loadPlugin" /\ last'.op = "enablePlugin" /\ last'.name = last.name
        /\ NoHookFailed(last) /\ NoHookFailed(last'))
       => /\ last.result = Fulfilled /\ last'.result = Fulfilled
          /\ StatesIn(last) \o StatesIn(last') = <<UNLOADED, LOADED, ENABLED_STATE>>
          /\ ObservedIn(last) \o ObservedIn(last')
                = <<Ev("recv", last.name, "plugin:loaded"), Ev("recv", last.name, "plugin:enabled")>>
          /\ last'.registered /\ last'.post = ENABLED_STATE]_vars

C1_Witness ==
    /\ last.op = "enablePlugin" /\ last.pre = LOADED /\ last.hooks = Hooks
    /\ last.result = Fulfilled /\ last.post = ENABLED_STATE
    /\ ObservedIn(last) = <<Ev("recv", last.name, "plugin:enabled")>>

\* C2: whenever loadPlugin rejects, it rejects with PluginLoadError, the
\* instance it built is in state error and that instance is not in the
\* registry, whatever made loadPlugin fail.
C2_FailedLoadNotRegistered ==
    (last.op = "loadPlugin" /\ last.result # Fulfilled)
        => /\ Rejected(last.result, "PluginLoadError", last.name, "none")
           /\ last.post = ERROR
           /\ ~last.registered

\* C3: once a registered instance is in state error, no step of an
\* enablePlugin or disablePlugin call changes the state of the instance
\* registered under that name.
C3_ErrorAbsorbing ==
    [][\A n \in Names :
        (StateOf(inst, registry, n) = ERROR /\ StepOp \in {"enablePlugin", "disablePlugin"})
            => StateOf(inst', registry', n) = ERROR]_vars

\* C4: enablePlugin on a plugin in state enabled invokes no hook, emits no
\* event and leaves the state enabled; so an enablePlugin call that enables
\* the plugin followed by a second enablePlugin call invokes onEnable once
\* (when the plugin defines it) and emits plugin:enabled once.
C4_EnableIdempotent ==
    [][(Completes /\ last'.op = "enablePlugin")
       => /\ last'.pre = ENABLED_STATE
                => /\ last'.tr = <<>>
                   /\ last'.result = Fulfilled
                   /\ last'.post = ENABLED_STATE /\ last'.registered
          /\ (/\ last.op = "enablePlugin" /\ last.name = last'.name
              /\ last.result = Fulfilled /\ last.pre # ENABLED_STATE)
                => /\ CallsIn(last) \o CallsIn(last')
                        = IF "onEnable" \in last'.hooks THEN <<"onEnable">> ELSE <<>>
                   /\ EmitsIn(last) \o EmitsIn(last') = <<"plugin:enabled">>]_vars

C4_Witness ==
    /\ last.op = "enablePlugin" /\ last.pre = ENABLED_STATE /\ "onEnable" \in last.hooks
    /\ last.result = Fulfilled /\ last.tr = <<>>

\* C5: when a hook rejects during enablePlugin, disablePlugin or unloadPlugin,
\* the instance ends in state error and the call rejects with a
\* PluginLifecycleError naming the plugin and the hook that rejected.
C5_ErrorNamesFailedHook ==
    (last.op \in {"enablePlugin", "disablePlugin", "unloadPlugin"} /\ ~NoHookFailed(last))
        => /\ last.post = ERROR
           /\ Rejected(last.result, "PluginLifecycleError", last.name, Pick(last.tr, {"fail"})[1].x)

\* what unloadPlugin of an enabled plugin n with hooks hs does when no hook rejects
UnloadOfEnabled(n, hs) ==
    (IF "onDisable" \in hs THEN <<Ev("call", n, "onDisable"), Ev("ok", n, "onDisable")>> ELSE <<>>)
    \o <<Ev("state", n, DISABLED), Ev("emit", n, "plugin:disabled"), Ev("recv", n, "plugin:disabled")>>
    \o (IF "onUnload" \in hs THEN <<Ev("call", n, "onUnload"), Ev("ok", n, "onUnload")>> ELSE <<>>)
    \o <<Ev("state", n, UNLOADED), Ev("unreg", n, ""),
         Ev("emit", n, "plugin:unloaded"), Ev("recv", n, "plugin:unloaded")>>

FirstFail(tr) ==
    CHOOSE p \in 1..Len(tr) : tr[p].k = "fail" /\ \A q \in 1..(p - 1) : tr[q].k # "fail"

IsPrefix(s, t) == Len(s) <= Len(t) /\ SubSeq(t, 1, Len(s)) = s

\* C6: unloadPlugin of an enabled plugin invokes onDisable and then onUnload,
\* and removes the instance and emits plugin:unloaded only after both have
\* fulfilled, plugin:disabled having been emitted before; when a hook
\* rejects nothing is removed and plugin:unloaded is not emitted.
C6_UnloadOrder ==
    (last.op = "unloadPlugin" /\ last.pre = ENABLED_STATE)
        => /\ NoHookFailed(last)
                => /\ last.tr = UnloadOfEnabled(last.name, last.hooks)
                   /\ last.result = Fulfilled /\ ~last.registered
           /\ ~NoHookFailed(last)
                => /\ IsPrefix(SubSeq(last.tr, 1, FirstFail(last.tr) - 1),
                               UnloadOfEnabled(last.name, last.hooks))
                   /\ Pick(last.tr, {"unreg"}) = <<>>
                   /\ ~Has1(last.tr, Ev("emit", last.name, "plugin:unloaded"))
                   /\ last.registered

C6_Witness ==
    /\ last.op = "unloadPlugin" /\ last.pre = ENABLED_STATE /\ last.hooks = Hooks
    /\ last.result = Fulfilled /\ CallsIn(last) = <<"onDisable", "onUnload">>
    /\ ~last.registered

\* C7 as stated: when onDisable rejects inside unloadPlugin of an enabled
\* plugin, unloadPlugin rejects and onUnload is still invoked.
C7_StillAttemptsUnload ==
    (/\ last.op = "unloadPlugin" /\ last.pre = ENABLED_STATE /\ "onUnload" \in last.hooks
     /\ Has1(last.tr, Ev("fail", last.name, "onDisable")))
        => /\ last.result # Fulfilled
           /\ Has1(last.tr, Ev("call", last.name, "onUnload"))

\* C7 as amended: when onDisable rejects inside unloadPlugin of an enabled
\* plugin, unloadPlugin rejects with a PluginLifecycleError and abandons the
\* unload: onUnload is not invoked, nothing is unregistered and the instance
\* stays registered in state error.
C7_AbandonsUnload ==
    (/\ last.op = "unloadPlugin" /\ last.pre = ENABLED_STATE
     /\ Has1(last.tr, Ev("fail", last.name, "onDisable")))
        => /\ last.result.res = "PluginLifecycleError" /\ last.result.name = last.name
           /\ CallsIn(last) = <<"onDisable">>
           /\ Pick(last.tr, {"unreg"}) = <<>>
           /\ last.post = ERROR /\ last.registered

C7_Witness ==
    /\ last.op = "unloadPlugin" /\ last.pre = ENABLED_STATE /\ "onUnload" \in last.hooks
    /\ Has1(last.tr, Ev("fail", last.name, "onDisable"))
    /\ last.post = ERROR

\* C8: in unloadPlugin, if onUnload fulfils the instance ends in state
\* unloaded, is removed from the registry and plugin:unloaded is emitted
\* exactly once; if onUnload rejects the instance stays registered in state
\* error, plugin:unloaded is not emitted and the call rejects with a
\* PluginLifecycleError naming onUnload.
C8_UnloadOutcome ==
    last.op = "unloadPlugin"
        => /\ Has1(last.tr, Ev("ok", last.name, "onUnload"))
                => /\ last.post = UNLOADED /\ ~last.registered
                   /\ Count(last.tr, Ev("unreg", last.name, "")) = 1
                   /\ Count(last.tr, Ev("emit", last.name, "plugin:unloaded")) = 1
                   /\ Count(last.tr, Ev("recv", last.name, "plugin:unloaded")) = 1
                   /\ last.result = Fulfilled
           /\ Has1(last.tr, Ev("fail", last.name, "onUnload"))
                => /\ last.post = ERROR /\ last.registered
                   /\ Pick(last.tr, {"unreg"}) = <<>>
                   /\ Count(last.tr, Ev("emit", last.name, "plugin:unloaded")) = 0
                   /\ Rejected(last.result, "PluginLifecycleError", last.name, "onUnload")

C8_Witness ==
    /\ last.op = "unloadPlugin"
    /\ Has1(last.tr, Ev("fail", last.name, "onUnload"))
    /\ last.registered /\ last.post = ERROR

\* every hook invoked in tr settles before anything else happens
SettlesAtOnce(tr) ==
    \A p \in 1..Len(tr) :
        tr[p].k = "call"
            => /\ p < Len(tr)
               /\ tr[p + 1] \in {Ev("ok", tr[p].n, tr[p].x), Ev("fail", tr[p].n, tr[p].x)}

\* C9: unloadAllPlugins calls unloadPlugin on the registered plugins in the
\* reverse of their order in the registry, last registered first, and every
\* hook of a plugin has settled before the next plugin is visited.
C9_ReverseSweep ==
    last.op = "unloadAllPlugins"
        => /\ VisitsIn(last) = Reverse(last.order)
           /\ SettlesAtOnce(last.tr)

C9_Witness ==
    /\ last.op = "unloadAllPlugins"
    /\ last.order = <<"a", "b">>
    /\ VisitsIn(last) = <<"b", "a">>
    /\ Has1(last.tr, Ev("ok", "b", "onUnload")) /\ Has1(last.tr, Ev("call", "a", "onDisable"))

\* C10: unloadAllPlugins always fulfils: a rejection of one plugin's onDisable
\* or onUnload is caught, and every plugin of the sweep is still visited,
\* exactly once.
C10_SweepNeverFails ==
    last.op = "unloadAllPlugins"
        => /\ last.result = Fulfilled
           /\ \A n \in Names :
                Count(Pick(last.tr, {"visit"}), Ev("visit", n, ""))
                    = Cardinality({p \in 1..Len(last.order) : last.order[p] = n})
           /\ Len(Pick(last.tr, {"caught"})) = Len(Pick(last.tr, {"fail"}))

C10_Witness ==
    /\ last.op = "unloadAllPlugins"
    /\ Len(last.order) = 2
    /\ \E h \in {"onDisable", "onUnload"} : Has1(last.tr, Ev("fail", last.order[2], h))
    /\ Has1(last.tr, Ev("visit", last.order[1], ""))
    /\ last.result = Fulfilled

\* C11: after successful loadPlugin and unloadPlugin calls, a load of an
\* already registered name included, unloadAllPlugins visits the registered
\* plugins in the reverse order of their most recent successful load.
C11_ReverseOfLoadOrder ==
    last.op = "unloadAllPlugins" => VisitsIn(last) = Reverse(last.loads)

\* C17: disablePlugin on a plugin in state disabled or loaded returns
\* successfully, invokes no hook, emits no event and leaves the state as it was.
C17_DisableNoOp ==
    (last.op = "disablePlugin" /\ last.pre \in {DISABLED, LOADED})
        => /\ last.result = Fulfilled
           /\ last.tr = <<>>
           /\ last.post = last.pre /\ last.registered

C17_Witness ==
    /\ last.op = "disablePlugin" /\ last.pre = DISABLED /\ "onDisable" \in last.hooks
    /\ last.result = Fulfilled /\ last.tr = <<>> /\ last.post = DISABLED

\* C18: for a name absent from the registry enablePlugin and disablePlugin
\* reject with PluginLoadError 'Plugin not found' and unloadPlugin fulfils;
\* the call invokes no hook, emits no event, and leaves the registry, the
\* instances and the listeners as they were.
C18_AbsentNameNoEffect ==
    [][(/\ Completes
        /\ last'.op \in {"enablePlugin", "disablePlugin", "unloadPlugin"}
        /\ last'.pre = "absent")
       => /\ last'.op \in {"enablePlugin", "disablePlugin"}
                => last'.result = PluginLoadError(last'.name, NotFound)
          /\ last'.op = "unloadPlugin" => last'.result = Fulfilled
          /\ last'.tr = <<>>
          /\ registry' = registry /\ inst' = inst /\ listeners' = listeners]_vars

C18_Witness ==
    /\ last.op = "disablePlugin" /\ last.pre = "absent"
    /\ last.result = PluginLoadError(last.name, NotFound) /\ last.tr = <<>>
    /\ Len(registry) = 1

\* C19: while a hook is pending nothing has happened since it was invoked,
\* and the instance is: not in the registry (onLoad), not yet enabled
\* (onEnable), still enabled (onDisable), still registered (onUnload).
C19_StateAfterHook ==
    \A t \in Tasks :
        (~Idle(t) /\ Top(t).pc \in Hooks)
            => /\ tasks[t].tr[Len(tasks[t].tr)] = Ev("call", Top(t).name, Top(t).pc)
               /\ Top(t).pc = "onLoad" => ~InRegistry(registry, Top(t).id)
               /\ Top(t).pc = "onEnable" => inst[Top(t).id].state # ENABLED_STATE
               /\ Top(t).pc = "onDisable" => inst[Top(t).id].state = ENABLED_STATE
               /\ Top(t).pc = "onUnload" => InRegistry(registry, Top(t).id)

\* ---------------------------------------------------------------- reading a loadAllPlugins trace
\* the entries of the plugins root that are directories, in order
Directories == SelectSeq(Entries, LAMBDA e : fs[e].isDir)

RECURSIVE UpToDir(_)
\* the entries of tr before its first "dir" mark
UpToDir(tr) ==
    IF tr = <<>> \/ Head(tr).k = "dir" THEN <<>> ELSE <<Head(tr)>> \o UpToDir(Tail(tr))

\* what loadAllPlugins did for directory d: the entries of tr after the "dir"
\* mark of d up to the next mark
Segment(tr, d) ==
    LET at == {p \in 1..Len(tr) : tr[p] = Ev("dir", d, "")}
    IN  IF at = {} THEN <<>>
        ELSE UpToDir(SubSeq(tr, (CHOOSE p \in at : TRUE) + 1, Len(tr)))

HasDescriptor(e) == PLUGIN_CONFIG_FILE \in e.files

\* plugin.json is there and is not a valid descriptor
DescriptorError(e) ==
    HasDescriptor(e)
        /\ (e.json = "malformed" \/ ~e.meta.object \/ e.meta.name = "" \/ e.meta.version = "")

\* a valid descriptor that does not say enabled: false
EnabledDescriptor(e) == HasDescriptor(e) /\ ~DescriptorError(e) /\ e.meta.enabled # "false"

\* the descriptor is fine and the module is missing, broken or misnamed
ModuleError(e) ==
    EnabledDescriptor(e)
        /\ (e.files \cap {"index.ts", "index.js"} = {} \/ e.module # "ok"
            \/ e.plugin.name # e.meta.name)

NameMismatch(e) ==
    /\ EnabledDescriptor(e) /\ e.files \cap {"index.ts", "index.js"} # {}
    /\ e.module = "ok" /\ e.plugin.name # e.meta.name

\* the result entries of a trace
ResultsIn(tr) == Pick(tr, {"result"})

\* C12: loadAllPlugins always fulfils and processes every directory; a
\* directory with a descriptor error, a module error or a rejecting onLoad or
\* onEnable gets exactly one failure entry; with autoEnable, a directory
\* holding a valid enabled plugin whose hooks fulfil gets a success entry
\* also after a failing directory, and the plugin is in state enabled when
\* loadAllPlugins settles (no later directory loading the same name).
C12_LoadAllIsolates ==
    [][(Completes /\ last'.op = "loadAllPlugins")
       => /\ last'.result = Fulfilled
          /\ NamesIn(Pick(last'.tr, {"dir"})) = Directories
          /\ \A p \in 1..Len(Directories) :
                LET d == Directories[p]
                    seg == Segment(last'.tr, d)
                    later == {fs[Directories[q]].meta.name :
                                q \in {r \in (p + 1)..Len(Directories) :
                                            /\ EnabledDescriptor(fs[Directories[r]])
                                            /\ ~ModuleError(fs[Directories[r]])}}
                IN  /\ (DescriptorError(fs[d]) \/ ModuleError(fs[d]) \/ Pick(seg, {"fail"}) # <<>>)
                        => /\ Len(ResultsIn(seg)) = 1
                           /\ seg[Len(seg)].k = "result" /\ seg[Len(seg)].n = d
                           /\ seg[Len(seg)].x # "success"
                    /\ (/\ EnabledDescriptor(fs[d]) /\ ~ModuleError(fs[d])
                        /\ Pick(seg, {"fail"}) = <<>> /\ autoEnable)
                        => /\ ResultsIn(seg) = <<Ev("result", fs[d].meta.name, "success")>>
                           /\ fs[d].meta.name \notin later
                                => StateOf(inst', registry', fs[d].meta.name) = ENABLED_STATE]_vars

C12_Witness ==
    /\ last.op = "loadAllPlugins" /\ last.result = Fulfilled
    /\ fs["d1"] = WellFormed("a", AllMembers, "true") /\ fs["d2"] = WellFormed("b", AllMembers, "true")
    /\ Has1(last.tr, Ev("fail", "a", "onEnable"))
    /\ ResultsIn(last.tr)
        = <<Ev("result", "d1", PluginLifecycleError("a", "onEnable", HookFailure).msg),
            Ev("result", "b", "success")>>
    /\ StateOf(inst, registry, "b") = ENABLED_STATE

\* C13: in loadAllPlugins a directory without plugin.json, or whose valid
\* descriptor says enabled: false, leaves nothing behind: no result entry, no
\* hook call, no registration; a directory whose valid descriptor has no
\* enabled field is imported and, its module being fine, handed to
\* loadPlugin, and loaded with a success entry when no hook rejects.
C13_DefaultingAndSkipping ==
    last.op = "loadAllPlugins"
        => \A p \in 1..Len(Directories) :
                LET d == Directories[p]
                    seg == Segment(last.tr, d)
                IN  /\ (~HasDescriptor(fs[d])
                            \/ (HasDescriptor(fs[d]) /\ ~DescriptorError(fs[d])
                                    /\ fs[d].meta.enabled = "false"))
                        => seg = <<>>
                    /\ (/\ HasDescriptor(fs[d]) /\ ~DescriptorError(fs[d])
                        /\ fs[d].meta.enabled = "absent" /\ ~ModuleError(fs[d]))
                        => /\ Has1(seg, Ev("state", fs[d].meta.name, UNLOADED))
                           /\ Pick(seg, {"fail"}) = <<>>
                                => /\ Has1(seg, Ev("reg", fs[d].meta.name, ""))
                                   /\ seg[Len(seg)] = Ev("result", fs[d].meta.name, "success")

C13_Witness ==
    /\ last.op = "loadAllPlugins"
    /\ fs["d1"] = Disabled("a") /\ fs["d2"] = WellFormed("b", {}, "absent")
    /\ Segment(last.tr, "d1") = <<>>
    /\ Has1(Segment(last.tr, "d2"), Ev("reg", "b", ""))
    /\ ResultsIn(last.tr) = <<Ev("result", "b", "success")>>
    /\ ~Has(inst, registry, "a") /\ Has(inst, registry, "b")

\* C14: a directory whose module exports a name other than the descriptor's
\* name is imported and then fails with the message 'Plugin name mismatch:
\* <exported> vs <descriptor>: <descriptor>'; nothing else happens for it: no
\* hook is invoked and nothing is registered.
C14_NameMismatchRejected ==
    last.op = "loadAllPlugins"
        => \A p \in 1..Len(Directories) :
                LET d == Directories[p]
                    seg == Segment(last.tr, d)
                IN  NameMismatch(fs[d])
                        => /\ Len(seg) = 2 /\ seg[1].k = "import"
                           /\ seg[2] = Ev("result", d,
                                          "Plugin name mismatch: " \o fs[d].plugin.name \o " vs "
                                              \o fs[d].meta.name \o ": " \o fs[d].meta.name)

C14_Witness ==
    /\ last.op = "loadAllPlugins"
    /\ fs["d1"] = Mismatch("a", "b") /\ ~fs["d2"].isDir
    /\ ResultsIn(last.tr) = <<Ev("result", "d1", "Plugin name mismatch: b vs a: a")>>
    /\ registry = <<>>

\* the hooks reloadPlugin runs on a plugin with members hs found in state pre
ReloadHooks(hs, pre) ==
    (IF pre = ENABLED_STATE /\ "onDisable" \in hs THEN <<"onDisable">> ELSE <<>>)
    \o SelectSeq(<<"onUnload", "onLoad", "onEnable">>, LAMBDA h : h \in hs)

\* C15: reloadPlugin of a registered plugin invokes onDisable (only when the
\* plugin is enabled), onUnload, onLoad, onEnable in this order, as far as it
\* gets; when it fulfils it has invoked all of them and the name is
\* registered in state enabled.  For a name that is not registered it rejects
\* with PluginLoadError 'Plugin not found', invokes nothing and leaves the
\* registry and the instances as they were.
C15_ReloadOrder ==
    [][(Completes /\ last'.op = "reloadPlugin")
       => /\ last'.pre = "absent"
                => /\ last'.result = PluginLoadError(last'.name, NotFound)
                   /\ last'.tr = <<>>
                   /\ registry' = registry /\ inst' = inst
          /\ last'.pre # "absent"
                => /\ IsPrefix(CallsIn(last'), ReloadHooks(last'.hooks, last'.pre))
                   /\ last'.result = Fulfilled
                        => /\ CallsIn(last') = ReloadHooks(last'.hooks, last'.pre)
                           /\ NoHookFailed(last')
                           /\ StateOf(inst', registry', last'.name) = ENABLED_STATE]_vars

C15_Witness ==
    /\ last.op = "reloadPlugin" /\ last.pre = ENABLED_STATE /\ last.result = Fulfilled
    /\ CallsIn(last) = <<"onDisable", "onUnload", "onLoad", "onEnable">>
    /\ StateOf(inst, registry, last.name) = ENABLED_STATE

\* the registered names that are enabled and define routes
Routed(i, r) ==
    {n \in Names : StateOf(i, r, n) = ENABLED_STATE /\ "routes" \in i[Get(i, r, n)].hooks}

\* C16: when no routes callback throws, registerPluginRoutes creates one
\* router for, invokes the routes callback of, and mounts at /api/v1/<name>,
\* each once, exactly the registry entries that are enabled and define
\* routes at the time of the call; it mounts nothing else and changes
\* neither the registry nor an instance.
C16_RoutesOfEnabledOnly ==
    [][(Completes /\ last'.op = "registerPluginRoutes" /\ NoHookFailed(last'))
       => /\ \A n \in Names :
                LET k == IF n \in Routed(inst, registry) THEN 1 ELSE 0
                IN  /\ Count(last'.tr, Ev("mount", n, "/api/v1/" \o n)) = k
                    /\ Count(last'.tr, Ev("router", n, "")) = k
                    /\ Count(last'.tr, Ev("call", n, "routes")) = k
          /\ Len(Pick(last'.tr, {"mount"})) = Cardinality(Routed(inst, registry))
          /\ last'.result = Fulfilled
          /\ registry' = registry /\ inst' = inst]_vars

C16_Witness ==
    /\ last.op = "registerPluginRoutes" /\ last.result = Fulfilled
    /\ Pick(last.tr, {"mount"}) = <<Ev("mount", "a", "/api/v1/a")>>
    /\ StateOf(inst, registry, "a") = ENABLED_STATE
    /\ StateOf(inst, registry, "b") \in {DISABLED, ERROR}
    /\ "routes" \in inst[Get(inst, registry, "b")].hooks

\* the listener functions an emitEvent call ran, in order
InvokedIn(c) == NamesIn(Pick(c.tr, {"invoke"}))

\* C20: an emitEvent call in which no listener throws runs the listeners
\* subscribed to the event name at the time of the call, each subscription
\* once and in subscription order, runs nothing for another event name, and
\* then returns true when the name had a listener and false when it had none.
C20_FanOut ==
    (last.op = "emitEvent" /\ last.result = Fulfilled)
        => /\ InvokedIn(last) = last.order
           /\ \A p \in 1..Len(last.tr) : last.tr[p].k = "invoke" => last.tr[p].x = last.name
           /\ Len(last.tr) = Len(last.order) + 1
           /\ last.tr[Len(last.tr)]
                = Ev("return", last.name, IF last.order # <<>> THEN "true" ELSE "false")

C20_Witness ==
    /\ last.op = "emitEvent" /\ last.name = "plugin:loaded" /\ last.result = Fulfilled
    /\ last.order = <<"f", "g">>
    /\ InvokedIn(last) = <<"f", "g">>
    /\ listeners["plugin:enabled"] # <<>>
    /\ last.tr[Len(last.tr)] = Ev("return", "plugin:loaded", "true")

\* C21: emitEvent returns although a listener throws; so a loadPlugin,
\* enablePlugin, disablePlugin or unloadPlugin call in which no hook rejects
\* fails only when the name is not registered, and never assigns the state
\* error, whatever the subscribers of the lifecycle events do.
C21_ListenerCannotFail ==
    /\ last.op = "emitEvent" => last.result = Fulfilled
    /\ (/\ last.op \in {"loadPlugin", "enablePlugin", "disablePlugin", "unloadPlugin"}
        /\ NoHookFailed(last))
            => /\ last.result \in {Fulfilled, PluginLoadError(last.name, NotFound)}
               /\ ~Has1(last.tr, Ev("state", last.name, ERROR))

\* C22: getAllPluginStatuses returns one entry for each registered plugin,
\* in registry order, with the name, current state and version of the
\* instance; getPluginStatus returns null for a name that is not registered
\* and the state and metadata of the instance otherwise; made right after a
\* lifecycle call that fulfilled, the report shows what that call did; a
\* status call changes no instance, not the registry, and emits nothing.
AfterCall(c, value) ==
    c.result = Fulfilled
        => CASE c.op = "loadPlugin"
                    -> \E p \in 1..Len(value) : value[p].name = c.name /\ value[p].state = LOADED
             [] c.op = "enablePlugin"
                    -> \E p \in 1..Len(value) :
                            value[p].name = c.name /\ value[p].state = ENABLED_STATE
             [] c.op = "disablePlugin"
                    -> \E p \in 1..Len(value) :
                            value[p].name = c.name /\ value[p].state \in {DISABLED, LOADED}
             [] c.op = "unloadPlugin"
                    -> \A p \in 1..Len(value) : value[p].name # c.name
             [] OTHER -> TRUE

C22_StatusRoundTrip ==
    [][(Completes /\ last'.op \in {"getPluginStatus", "getAllPluginStatuses"})
       => /\ inst' = inst /\ registry' = registry /\ tasks' = tasks /\ listeners' = listeners
          /\ last'.tr = <<>>
          /\ last'.op = "getAllPluginStatuses"
                => /\ Len(last'.value) = Len(registry)
                   /\ \A p \in 1..Len(registry) :
                        last'.value[p] = PluginStatus(inst[registry[p]].name,
                                                      inst[registry[p]].state,
                                                      inst[registry[p]].version)
                   /\ \A p, q \in 1..Len(last'.value) :
                        last'.value[p].name = last'.value[q].name => p = q
                   /\ AllIdle => AfterCall(last, last'.value)
          /\ last'.op = "getPluginStatus"
                => /\ ~Has(inst, registry, last'.name) => last'.value = <<NullStatus>>
                   /\ Has(inst, registry, last'.name)
                        => last'.value = <<PluginStatus(last'.name,
                                                        StateOf(inst, registry, last'.name),
                                                        inst[Get(inst, registry, last'.name)].version)>>]_vars

C22_Witness ==
    /\ last.op = "getAllPluginStatuses"
    /\ last.value = <<PluginStatus("b", ERROR, "1.0.0"), PluginStatus("a", ENABLED_STATE, "2.0.0")>>
    /\ NamesOf(inst, registry) = <<"b", "a">>

\* the hooks of tr that were invoked and have not settled
Unsettled(tr) == Len(Pick(tr, {"call"})) - Len(Pick(tr, {"ok", "fail"}))

\* the directory loadAllPlugins is working on at position p of tr
DirAt(tr, p) ==
    LET marks == {q \in 1..p : tr[q].k = "dir"}
    IN  IF marks = {} THEN "" ELSE tr[CHOOSE q \in marks : \A r \in marks : r <= q].n

\* tr is the trace of a strictly sequential discovery: an iteration begins,
\* and a hook is invoked, only when every hook invoked before has settled;
\* a hook invoked belongs to the plugin of the directory being worked on; the
\* iterations follow the directory enumeration, and each one adds at most one
\* result entry before the next begins
SequentialTrace(tr) ==
    /\ \A p \in 1..Len(tr) :
            tr[p].k \in {"dir", "call"} => Unsettled(SubSeq(tr, 1, p - 1)) = 0
    /\ \A p \in 1..Len(tr) :
            tr[p].k = "call" => DirAt(tr, p) # "" /\ tr[p].n = fs[DirAt(tr, p)].meta.name
    /\ NamesIn(Pick(tr, {"dir"})) = SubSeq(Directories, 1, Len(Pick(tr, {"dir"})))
    /\ LET marks == Pick(tr, {"dir", "result"})
       IN  \A p \in 1..Len(marks) :
                marks[p].k = "result" => p > 1 /\ marks[p - 1].k = "dir"

\* C23: loadAllPlugins works through the directories one at a time in
\* enumeration order: no hook of a later directory's plugin is invoked before
\* the onLoad and onEnable of the earlier ones have settled, and the result
\* entries come in directory order.
C23_SequentialDiscovery ==
    /\ \A t \in Tasks : tasks[t].op = "loadAllPlugins" => SequentialTrace(tasks[t].tr)
    /\ last.op = "loadAllPlugins" => SequentialTrace(last.tr) /\ Unsettled(last.tr) = 0

C23_Witness ==
    /\ last.op = "loadAllPlugins" /\ autoEnable
    /\ CallsIn(last) = <<"onLoad", "onEnable", "onLoad", "onEnable">>
    /\ NamesIn(Pick(last.tr, {"call"})) = <<"a", "a", "b", "b">>
    /\ ResultsIn(last.tr) = <<Ev("result", "d1", PluginLifecycleError("a", "onEnable", HookFailure).msg),
                              Ev("result", "b", "success")>>

\* task t waits for hook h of the plugin named n
PendingOn(t, h, n) == ~Idle(t) /\ Top(t).pc = h /\ Top(t).name = n

\* no other caller than t is in a call on the name n
SerializedOn(t, n) == \A u \in Tasks \ {t} : Idle(u) \/ tasks[u].name # n

\* C24: enablePlugin takes no lock.  (a) A call of enablePlugin(n) made while
\* the onEnable of another enablePlugin(n) is pending, the instance being
\* registered and not yet enabled, passes the already-enabled check and
\* invokes onEnable of the same instance again.  (b) Each of the calls
\* emits plugin:enabled when its onEnable fulfils, also when the instance is
\* enabled by then.  (c) A call made while no other call on the name is in
\* flight invokes onEnable only of an instance that is not enabled and has
\* no onEnable pending.
C24_NoMutex ==
    [][\A t \in Tasks, n \in Names :
        /\ (/\ EnablePlugin(t, n, 0)
            /\ \E u \in Tasks \ {t} :
                    /\ PendingOn(u, "onEnable", n) /\ Top(u).fn = "enablePlugin"
                    /\ Get(inst, registry, n) = Top(u).id
                    /\ inst[Top(u).id].state # ENABLED_STATE)
                => /\ tasks'[t].op = "enablePlugin" /\ tasks'[t].tr = <<Ev("call", n, "onEnable")>>
                   /\ tasks'[t].id = Get(inst', registry', n)
                   /\ \A u \in Tasks : PendingOn(u, "onEnable", n) => tasks'[u] = tasks[u]
        /\ (/\ PendingOn(t, "onEnable", n) /\ Top(t).fn = "enablePlugin"
            /\ HookSettles(t, TRUE, 0))
                => /\ last'.op = "enablePlugin" /\ last'.name = n /\ last'.result = Fulfilled
                   /\ EmitsIn(last') = <<"plugin:enabled">>
        /\ (EnablePlugin(t, n, 0) /\ SerializedOn(t, n))
                => /\ (tasks'[t].op = "enablePlugin")
                        => /\ StateOf(inst, registry, n) \notin {"absent", ENABLED_STATE}
                           /\ \A u \in Tasks \ {t} : ~PendingOn(u, "onEnable", n)
                   /\ (StateOf(inst, registry, n) = ENABLED_STATE)
                        => (tasks'[t] = tasks[t] /\ last'.tr = <<>> /\ last'.result = Fulfilled)]_vars

\* both calls are past the check and wait for onEnable of the same instance
C24_Witness ==
    /\ \A t \in Tasks :
            /\ PendingOn(t, "onEnable", "a") /\ Top(t).fn = "enablePlugin"
            /\ tasks[t].tr = <<Ev("call", "a", "onEnable")>>
            /\ Top(t).id = Get(inst, registry, "a")
    /\ StateOf(inst, registry, "a") = LOADED

\* C25: main() whose connectDatabase fails ends the process with exit code 1
\* before anything else: nothing was loaded and no step follows.  When the
\* database connects, main goes on whether connectRedis and initKafka fail
\* or not: it does not exit, loadAllPlugins processes every directory, calls
\* loadPlugin for every well-formed plugin and enables it when its hooks
\* fulfil, the routes of the enabled plugins are mounted, the server listens
\* and the shutdown handlers are installed.
DatabaseFailed(c) == c.op = "main" /\ Has1(c.tr, Ev("connect", "connectDatabase", "fail"))

C25_StartupPolicy ==
    [][/\ ~DatabaseFailed(last)
       /\ (Completes /\ DatabaseFailed(last'))
            => /\ last'.tr = <<Ev("connect", "connectDatabase", "fail"), Ev("exit", "", "1")>>
               /\ last'.result = Exit("1")
               /\ registry' = <<>> /\ \A t \in Tasks : tasks'[t] = IdleTask
       /\ (Completes /\ last'.op = "main" /\ ~DatabaseFailed(last'))
            => /\ last'.result = Fulfilled
               /\ Pick(last'.tr, {"exit"}) = <<>>
               /\ NamesIn(Pick(last'.tr, {"dir"})) = Directories
               /\ \A p \in 1..Len(Directories) :
                    LET d == Directories[p]
                        seg == Segment(last'.tr, d)
                    IN  (EnabledDescriptor(fs[d]) /\ ~ModuleError(fs[d]))
                            => /\ Has1(seg, Ev("state", fs[d].meta.name, UNLOADED))
                               /\ Pick(seg, {"fail"}) = <<>>
                                    => /\ Has1(seg, Ev("result", fs[d].meta.name, "success"))
                                       /\ StateOf(inst', registry', fs[d].meta.name) = ENABLED_STATE
               /\ \A n \in Names :
                    Count(last'.tr, Ev("mount", n, MountPath(n)))
                        = IF n \in Routed(inst', registry') THEN 1 ELSE 0
               /\ SubSeq(last'.tr, Len(last'.tr) - 1, Len(last'.tr))
                    = <<Ev("listen", "", ""), Ev("handlers", "", "")>>]_vars

\* Redis and Kafka both failed; the plugins were loaded and a route mounted
C25_Witness ==
    /\ last.op = "main" /\ last.result = Fulfilled
    /\ Pick(last.tr, {"connect"})
        = <<Ev("connect", "connectDatabase", "ok"), Ev("connect", "connectRedis", "fail"),
            Ev("connect", "initKafka", "fail")>>
    /\ Has1(last.tr, Ev("mount", "a", "/api/v1/a"))
    /\ Has1(last.tr, Ev("result", "b", "success"))
    /\ NamesOf(inst, registry) = <<"a", "b">>

\* the invocations of hook h of plugin n by the shutdown calls, in flight or
\* completed: the task or 0, and the position in its trace
ShutdownCalls(n, h) ==
    UNION {{<<t, p>> : p \in {q \in 1..Len(tasks[t].tr) : tasks[t].tr[q] = Ev("call", n, h)}} :
                t \in {u \in Tasks : tasks[u].op = "shutdown"}}
    \cup {<<0, p>> : p \in {q \in 1..Len(last.tr) :
                                last.op = "shutdown" /\ last.tr[q] = Ev("call", n, h)}}

\* C29: during shutdown the onDisable and the onUnload hook of a plugin are
\* each invoked at most once, however often the shutdown handler is triggered.
C29_HooksOnceOnShutdown ==
    \A n \in Names, h \in {"onDisable", "onUnload"} : Cardinality(ShutdownCalls(n, h)) <= 1

\* the entries of the registry: name and instance, in table order
EntriesOf(i, r) == [p \in 1..Len(r) |-> <<i[r[p]].name, i[r[p]]>>]

\* C26: the registry is a map from plugin names: no two entries carry the
\* same name; register(instance) makes the instance the entry of its name and
\* leaves the other entries as they were (a new name goes to the end, a
\* registered name keeps its place); unregister(name) removes the entry of
\* the name, if there is one, and nothing else, and returns true exactly
\* when the table got smaller; get returns the entry's instance, has is true
\* exactly when get returns one, getAll returns the instances in table
\* order and getEnabled those of getAll whose state is enabled, in order.
C26_RegistryIsMap ==
    [][/\ \A p, q \in 1..Len(registry') :
            inst'[registry'[p]].name = inst'[registry'[q]].name => p = q
       /\ (Completes /\ last'.op = "register")
            => LET before == EntriesOf(inst, registry)
                   after == EntriesOf(inst', registry')
                   new == <<last'.name, last'.value[1]>>
               IN  IF Has(inst, registry, last'.name)
                   THEN after = [p \in 1..Len(before) |->
                                    IF before[p][1] = last'.name THEN new ELSE before[p]]
                   ELSE after = Append(before, new)
       /\ (Completes /\ last'.op = "unregister")
            => /\ EntriesOf(inst', registry')
                    = SelectSeq(EntriesOf(inst, registry), LAMBDA e : e[1] # last'.name)
               /\ last'.value[1] <=> Len(registry') < Len(registry)
               /\ last'.value[1] <=> Has(inst, registry, last'.name)
       /\ (Completes /\ last'.op \in {"get", "has", "getAll", "getEnabled"})
            => /\ inst' = inst /\ registry' = registry
               /\ last'.op = "get"
                    => last'.value = SelectSeq(Instances(inst, registry),
                                               LAMBDA x : x.name = last'.name)
               /\ last'.op = "has"
                    => (last'.value[1]
                            <=> \E p \in 1..Len(registry) : inst[registry[p]].name = last'.name)
               /\ last'.op = "getAll" => last'.value = Instances(inst, registry)
               /\ last'.op = "getEnabled"
                    => last'.value = SelectSeq(Instances(inst, registry),
                                               LAMBDA x : x.state = ENABLED_STATE)]_vars

\* a registered name was registered again: the later instance is the entry
C26_Witness ==
    /\ last.op = "register" /\ last.name = "a" /\ last.value[1].state = ENABLED_STATE
    /\ NamesOf(inst, registry) = <<"a", "b">>
    /\ inst[registry[1]].state = ENABLED_STATE /\ inst[registry[2]].state = ERROR

\* the subscriptions of subs that are not of fn, in order
Others(subs, fn) == SelectSeq(subs, LAMBDA sub : sub.fn # fn)

\* how many subscriptions of subs are of fn
Times(subs, fn) == Len(subs) - Len(Others(subs, fn))

Announces(tr, p, event) == tr[p].k = "emit" /\ tr[p].x = event

\* In tr every lifecycle event is emitted directly after the change it
\* announces, in the same synchronous run, and delivered as it is emitted.
AnnouncedAfterChange(tr) ==
    \A p \in 1..Len(tr) :
        /\ Announces(tr, p, "plugin:loaded")
            => /\ p > 2
               /\ tr[p - 2] = Ev("state", tr[p].n, LOADED)
               /\ tr[p - 1] = Ev("reg", tr[p].n, "")
        /\ Announces(tr, p, "plugin:enabled")
            => p > 1 /\ tr[p - 1] = Ev("state", tr[p].n, ENABLED_STATE)
        /\ Announces(tr, p, "plugin:disabled")
            => p > 1 /\ tr[p - 1] = Ev("state", tr[p].n, DISABLED)
        /\ Announces(tr, p, "plugin:unloaded")
            => p > 1 /\ tr[p - 1] \in {Ev("unreg", tr[p].n, ""), Ev("unreg-miss", tr[p].n, "")}
        /\ tr[p].k = "recv"
            => p > 1 /\ tr[p - 1] = Ev("emit", tr[p].n, tr[p].x)

\* C28: a lifecycle event is emitted, and so delivered to its listeners, only
\* after the change it announces has been made: plugin:loaded follows the
\* assignment of state loaded and the registration, plugin:enabled the
\* assignment of state enabled, plugin:disabled the assignment of state
\* disabled, plugin:unloaded the removal of the name from the registry, with
\* nothing in between.
C28_EventAfterChange ==
    /\ AnnouncedAfterChange(last.tr)
    /\ \A t \in Tasks : AnnouncedAfterChange(tasks[t].tr)

\* a call of unloadPlugin on an enabled plugin delivered plugin:disabled and
\* plugin:unloaded to the subscriber
C28_Witness ==
    /\ last.op = "unloadPlugin" /\ last.result = Fulfilled
    /\ Has1(last.tr, Ev("recv", last.name, "plugin:disabled"))
    /\ Has1(last.tr, Ev("recv", last.name, "plugin:unloaded"))

\* the instances x and y hold the same plugin object (whatever their states)
SamePlugin(x, y) ==
    x.name = y.name /\ x.version = y.version /\ x.hooks = y.hooks /\ x.path = y.path

\* C30: an instance in the registry stays reachable through the registry
\* until its name is unregistered: after every step the name of a registered
\* instance is either removed from the registry or still maps to the instance
\* of the same plugin, also when loadPlugin is called for a registered name;
\* so unloadAllPlugins finds every loaded instance and invokes its onUnload.
C30_LoadedStaysReachable ==
    [][\A p \in 1..Len(registry) :
          LET n == inst[registry[p]].name
          IN  Has(inst', registry', n)
                  => SamePlugin(inst'[Get(inst', registry', n)], inst[registry[p]])]_vars

\* C31: when loadAllPlugins with autoEnable, called on an empty registry,
\* settles, the plugin named by every success entry is registered in state
\* enabled, every registered plugin is in state enabled or error, and a
\* plugin whose onLoad fulfilled and whose onEnable rejected has a failure
\* entry, is registered in state error, and had no onUnload invoked.
C31_EnabledOrError ==
    [][(Completes /\ last'.op = "loadAllPlugins" /\ autoEnable /\ last'.order = <<>>)
       => /\ \A p \in 1..Len(last'.tr) :
                (last'.tr[p].k = "result" /\ last'.tr[p].x = "success")
                    => StateOf(inst', registry', last'.tr[p].n) = ENABLED_STATE
          /\ \A p \in 1..Len(registry') :
                inst'[registry'[p]].state \in {ENABLED_STATE, ERROR}
          /\ \A n \in Names :
                Has1(last'.tr, Ev("fail", n, "onEnable"))
                    => /\ StateOf(inst', registry', n) = ERROR
                       /\ ~Has1(last'.tr, Ev("call", n, "onUnload"))
                       /\ \E p \in 1..Len(last'.tr) :
                            /\ last'.tr[p].k = "result"
                            /\ last'.tr[p].x
                                = PluginLifecycleError(n, "onEnable", HookFailure).msg]_vars

\* the calls of shutdown, under way or completed: the trace of the call and
\* the names registered when it was made
ShutdownRuns ==
    {[tr |-> tasks[t].tr, order |-> tasks[t].order] :
        t \in {u \in Tasks : tasks[u].op = "shutdown"}}
    \cup (IF last.op = "shutdown" THEN {[tr |-> last.tr, order |-> last.order]} ELSE {})

\* C32: in a call of shutdown, system:shutdown is emitted before any
\* onDisable or onUnload hook is invoked; the disconnects are started only
\* after unloadAllPlugins has completed (every plugin registered at the call
\* was visited, every hook invoked has settled, and nothing but the exit
\* follows); and the call ends with process.exit(0), also when hooks of the
\* sweep failed.
C32_ShutdownSequence ==
    /\ \A run \in ShutdownRuns :
        /\ \A p \in 1..Len(run.tr) :
            (run.tr[p].k = "call" /\ run.tr[p].x \in {"onDisable", "onUnload"})
                => \E q \in 1..(p - 1) :
                        run.tr[q].k = "emit" /\ run.tr[q].x = "system:shutdown"
        /\ \A p \in 1..Len(run.tr) :
            run.tr[p].k = "disconnect"
                => LET before == SubSeq(run.tr, 1, p - 1)
                   IN  /\ VisitsIn([tr |-> before]) = Reverse(run.order)
                       /\ Len(Pick(before, {"call"})) = Len(Pick(before, {"ok", "fail"}))
                       /\ \A q \in (p + 1)..Len(run.tr) : run.tr[q].k = "exit"
    /\ last.op = "shutdown"
        => /\ last.result = Exit("0")
           /\ last.tr[Len(last.tr)] = Ev("exit", "", "0")
           /\ Has1(last.tr, Ev("disconnect", "", "start"))

\* a shutdown in which an onDisable hook failed ended with exit code 0
C32_Witness ==
    /\ last.op = "shutdown" /\ last.result = Exit("0")
    /\ \E n \in Names : Has1(last.tr, Ev("fail", n, "onDisable"))
    /\ Has1(last.tr, Ev("disconnect", "", "start"))

\* the last entry of tr that registers or unregisters n
LastRegistryEntry(tr, n) ==
    LET at == {p \in 1..Len(tr) : tr[p] \in {Ev("reg", n, ""), Ev("unreg", n, "")}}
    IN  IF at = {} THEN "none" ELSE tr[CHOOSE p \in at : \A q \in at : q <= p].k

\* C33: when reloadPlugin(name) of a registered name rejects, name is absent
\* from the registry or registered in state error, never in state loaded,
\* enabled, disabled or unloaded; and the previous instance is not put back:
\* once the unload has removed it, name is registered only if loadPlugin
\* registered the instance it made in this call.
C33_FailedReload ==
    [][(/\ Completes /\ last'.op = "reloadPlugin"
        /\ last'.pre # "absent" /\ last'.result # Fulfilled)
       => /\ StateOf(inst', registry', last'.name) \in {"absent", ERROR}
          /\ Has1(last'.tr, Ev("unreg", last'.name, ""))
                => (Has(inst', registry', last'.name)
                        <=> LastRegistryEntry(last'.tr, last'.name) = "reg")]_vars

\* the package was disabled on disk: the reload removed the enabled plugin
\* and failed at the re-discovery
C33_Witness ==
    /\ last.op = "reloadPlugin" /\ last.pre = ENABLED_STATE
    /\ last.result = PluginLoadError(last.name, "Failed to reload plugin")
    /\ Has1(last.tr, Ev("unreg", last.name, ""))
    /\ ~Has(inst, registry, last.name)

\* the plugins of which a hook in hs failed in tr
FailedIn(tr, hs) == {n \in Names : \E h \in hs : Has1(tr, Ev("fail", n, h))}

\* C34: when unloadAllPlugins completes, no other lifecycle call being under
\* way, the registry holds exactly the plugins whose onDisable or onUnload
\* failed in the sweep, each in state error; every other plugin registered
\* when the sweep began, whatever its state, is no longer registered and
\* exactly one plugin:unloaded was emitted for it.
C34_SweepLeavesFailures ==
    [][(Completes /\ last'.op = "unloadAllPlugins" /\ \A t \in Tasks : tasks'[t].op = "idle")
       => LET failed == FailedIn(last'.tr, {"onDisable", "onUnload"})
          IN  /\ {n \in Names : Has(inst', registry', n)} = failed
              /\ \A n \in failed : StateOf(inst', registry', n) = ERROR
              /\ \A p \in 1..Len(last'.order) :
                    last'.order[p] \notin failed
                        => Count(last'.tr, Ev("emit", last'.order[p], "plugin:unloaded")) = 1
              /\ \A n \in Names :
                    Has1(last'.tr, Ev("emit", n, "plugin:unloaded"))
                        => \E p \in 1..Len(last'.order) : last'.order[p] = n /\ n \notin failed]_vars

\* a sweep over two plugins: a hook of the first registered failed, it is
\* left in state error, and the other is gone
C34_Witness ==
    /\ last.op = "unloadAllPlugins" /\ Len(last.order) = 2 /\ AllIdle
    /\ FailedIn(last.tr, {"onDisable", "onUnload"}) = {last.order[1]}
    /\ NamesOf(inst, GetAll(registry)) = <<last.order[1]>>
    /\ StateOf(inst, registry, last.order[1]) = ERROR
    /\ Count(last.tr, Ev("emit", last.order[2], "plugin:unloaded")) = 1

\* task t takes a step of a lifecycle call on the name a: it makes the call,
\* or the call goes on when the hook or the call it awaits settles
StepOn(t, a) ==
    /\ a = NameOf(t)
    /\ \/ \E hs \in IsolationKinds : LoadPlugin(t, a, "1.0.0", hs, 0)
       \/ EnablePlugin(t, a, 0)
       \/ DisablePlugin(t, a, 0)
       \/ UnloadPlugin(t, a, 0)
       \/ \E ok \in BOOLEAN : HookSettles(t, ok, 0)
       \/ AwaitSettles(t, 0)

\* C35: a step of loadPlugin, enablePlugin, disablePlugin or unloadPlugin on
\* one name, whatever its outcome and whatever calls on other names are
\* waiting for their hooks, leaves every other name as it was: registered or
\* not, the same plugin in the same state, and no hook of it invoked, no
\* state of it assigned, no event about it emitted.
C35_OtherPluginsUntouched ==
    [][\A t \in Tasks, a \in Names :
          StepOn(t, a)
            => \A b \in Names \ {a} :
                  /\ Has(inst', registry', b) <=> Has(inst, registry, b)
                  /\ StateOf(inst', registry', b) = StateOf(inst, registry, b)
                  /\ Has(inst, registry, b)
                        => SamePlugin(inst'[Get(inst', registry', b)],
                                      inst[Get(inst, registry, b)])
                  /\ \A p \in 1..Len(Added(t)) : Added(t)[p].n # b]_vars

\* unloadPlugin(a) has removed a while disablePlugin(b) waits for onDisable
C35_Witness ==
    /\ last.op = "unloadPlugin" /\ last.name = "a" /\ Has1(last.tr, Ev("unreg", "a", ""))
    /\ \E t \in Tasks :
        /\ tasks[t].op = "disablePlugin" /\ tasks[t].name = "b"
        /\ Top(t).pc = "onDisable"
    /\ StateOf(inst, registry, "b") = ENABLED_STATE

\* C36: in every state every instance held in the registry is in state
\* loaded, enabled, disabled or error, never unloaded; and the instance of a
\* loadPlugin whose onLoad has not yet fulfilled is not in the registry.
C36_RegisteredStates ==
    /\ \A p \in 1..Len(registry) :
        inst[registry[p]].state \in {LOADED, ENABLED_STATE, DISABLED, ERROR}
    /\ \A t \in Tasks :
        (~Idle(t) /\ Top(t).pc = "onLoad") => ~InRegistry(registry, Top(t).id)

\* onLoad of a new instance is pending, the instance is in state unloaded
\* and not registered, while another plugin is registered
C36_Witness ==
    /\ registry # <<>>
    /\ \E t \in Tasks :
        /\ ~Idle(t) /\ Top(t).pc = "onLoad"
        /\ inst[Top(t).id].state = UNLOADED
        /\ ~InRegistry(registry, Top(t).id)

\* C37: for every socket at most maxEvents calls of checkRateLimit return
\* true in one window of windowMs counted from the first accepted call of
\* the window; a call that returns false leaves the table as it was; and the
\* table starts a new window, with count 1, only at a call made strictly
\* after the reset time of the window before, that is more than windowMs
\* after that window began.
C37_RateLimit ==
    [][\A socketId \in Sockets :
          WithRateLimit(socketId)
            => /\ window'[socketId].accepted <= maxEvents
               /\ last'.value = <<FALSE>>
                    => /\ socketRateLimits' = socketRateLimits
                       /\ window' = window
                       /\ window[socketId].accepted = maxEvents
               /\ (/\ socketRateLimits'[socketId].count = 1
                   /\ socketId \in DOMAIN window)
                    => /\ clock > window[socketId].start + windowMs
                       /\ socketId \in DOMAIN socketRateLimits
                            => clock > socketRateLimits[socketId].resetAt
               /\ socketRateLimits'[socketId].resetAt = window'[socketId].start + windowMs
               /\ socketRateLimits'[socketId].count = window'[socketId].accepted]_vars

\* the call made at the very reset time of a full window is refused
C37_Witness ==
    /\ last.op = "checkRateLimit" /\ last.value = <<FALSE>>
    /\ window[last.name].accepted = maxEvents
    /\ clock = socketRateLimits[last.name].resetAt

====
